---- MODULE Spec2Model ----
(***************************************************************************)
(* Model of the SharePoint automation repository (haowern98/automation):   *)
(*   - the comparison write path (ExcelUpdater.analyze_excel_file and the  *)
(*     ExcelApplication wrapper), in its current (src/src) and legacy      *)
(*     (top-level utils/) versions, both shipped in the repository;        *)
(*   - the pipeline orchestrator run_sharepoint_automation with its        *)
(*     termination flag;                                                   *)
(*   - the block extractors (ER, GSN VS ER, GSN VS AD, Weekly report);     *)
(*   - the worksheet name resolver of the write path;                      *)
(*   - the set comparison of the host name lists;                          *)
(*   - the date selection dialog with its timeout;                         *)
(*   - the three data gathering jobs of process_data;                      *)
(*   - the weekly report read path from the file to the GUI answer.        *)
(* Each part has its own specification; the variables of the other parts   *)
(* stay at their initial value.                                            *)
(***************************************************************************)
EXTENDS Integers, Sequences, FiniteSets, TLC

VARIABLES
    \* ---- write path ----
    disk,        \* saved workbook: sheet name -> sequence of blocks
    wb,          \* in-memory workbook opened by Excel (same shape as disk)
    app,         \* ExcelApplication handles: excel / workbook / worksheet
    excelProc,   \* the Excel process started for the run
    wpc,         \* position inside update_excel_file / analyze_excel_file
    run,         \* the current run: number, variant, date range, fault, clock
    stepRet,     \* return values of the three _update_* calls and of save()
    wresult,     \* what analyze_excel_file returned
    pipeResult,  \* what update_excel_file returned to the pipeline
    closeCalled, \* whether ExcelApplication.close() ran in this run
    \* ---- pipeline orchestrator ----
    terminated,  \* _USER_TERMINATED
    rpc,         \* position inside run_sharepoint_automation
    rret,        \* its return value
    writeTried,  \* update_excel_file was called in this run
    raisedAt,    \* positions at which terminate was requested during this run
    runsDone,    \* number of completed pipeline runs
    \* ---- block extraction ----
    sheet,       \* the worksheet being read: sequence of rows
    variantX,    \* which extractor runs
    xpc,         \* position inside the extractor
    startRow,    \* start_row_index (1-based), 0 when not located
    cur,         \* the row the extraction loop is at
    body,        \* the rows emitted so far (their row numbers)
    xres,        \* the (success, data, error) outcome
    stopWhy,     \* why the loop stopped
    \* ---- worksheet name resolver ----
    rwb,         \* the open workbook: sheet name -> rows
    desired,     \* the name asked for (base_name)
    resolved,    \* the name _find_available_worksheet_name returned
    respc,       \* "idle", "call" (before the lookup) or "named" (after it)
    resolves,    \* number of lookups made so far
    \* ---- set comparison ----
    gsn_in,      \* the first list handed to the comparison (gsn_entries)
    other_in,    \* the second list (er_entries, or ad_entries)
    comparison_results, \* the two difference lists it produced
    cmppc,       \* "idle", "start", "compared" (GSN/ER) or "compared_ad" (GSN/AD)
    gsner_ws,    \* the GSN VS ER worksheet being filled: cells, merges, table, tab
    gsner_call,  \* the _update_gsner_worksheet call: variant, fault, return value
    \* ---- date selection dialog ----
    dpc,         \* position inside get_date_range
    dmode,       \* manual_mode
    dialog,      \* "none", "open", "accepted" or "rejected"
    tab,         \* the tab shown by the dialog
    elapsed,     \* seconds since the dialog was shown
    remaining_seconds, \* the countdown shown in automatic mode
    timeout_timer,     \* the single-shot timer is running
    result_obj,  \* flags of the DateRangeResult the dialog hands back
    dret,        \* what get_date_range returned / set
    userActed,   \* the user has done something in the dialog
    \* ---- data gathering ----
    ppc,         \* position inside process_data and the steps after it
    pidx,        \* which job process_data submits or waits for next
    jobs,        \* state of the three futures: "none", "running", "done", "raised"
    doneOrder,   \* the jobs in the order they ended
    data_results, \* "none", "dict" or "None": what process_data returned
    \* ---- weekly report read path ----
    gpc,         \* position inside extract_data_for_date_range_gui
    infile,      \* the input workbook file: "absent", "locked", "corrupt" or "ok"
    all_sheets,  \* its sheet names, in workbook order
    sheet_rows,  \* its sheets: name -> rows
    target_sheet, \* the sheet extract_from_file chose, "" for none
    rdata,       \* the rows handed up, and where they came from
    gui_result,  \* the (success, data, error_message) answer
    \* ---- run days and date ranges ----
    today,       \* the date the run takes as current_date (a day number)
    calmode,     \* manual_mode of the run
    calpc,       \* position inside the run: date checks, dialog, date range handed on
    has_ok_button,     \* the date range tab owns the OK button (tabs/date_range_tab.py)
    start_date_picker, \* the date shown by the start date picker
    end_date_picker,   \* the date shown by the end date picker
    ok_enabled,  \* the OK button is enabled
    tab_result,  \* the dates held by the tab's result_obj
    handed,      \* the date range get_date_range handed to the pipeline
    prev_auto,   \* the range handed on by the previous run, when it was calculated
    formatted    \* format_date_range of the range handed on: short and full month

writeVars == <<disk, wb, app, excelProc, wpc, run, stepRet, wresult, pipeResult, closeCalled>>
runVars   == <<terminated, rpc, rret, writeTried, raisedAt, runsDone>>
extVars   == <<sheet, variantX, xpc, startRow, cur, body, xres, stopWhy>>
resVars   == <<rwb, desired, resolved, respc, resolves>>
coreVars  == <<writeVars, runVars, extVars>>
cmpVars   == <<gsn_in, other_in, comparison_results, cmppc, gsner_ws, gsner_call>>
dlgVars   == <<dpc, dmode, dialog, tab, elapsed, remaining_seconds, timeout_timer,
               result_obj, dret, userActed>>
dataVars  == <<ppc, pidx, jobs, doneOrder, data_results>>
readVars  == <<gpc, infile, all_sheets, sheet_rows, target_sheet, rdata, gui_result>>
calVars   == <<today, calmode, calpc, has_ok_button, start_date_picker, end_date_picker,
               ok_enabled, tab_result, handed, prev_auto, formatted>>
auxVars   == <<resVars, cmpVars, dlgVars, dataVars, readVars, calVars>>
resRest   == <<coreVars, cmpVars, dlgVars, dataVars, readVars, calVars>>
cmpRest   == <<coreVars, resVars, dlgVars, dataVars, readVars, calVars>>
dlgRest   == <<coreVars, resVars, cmpVars, dataVars, readVars, calVars>>
dataRest  == <<coreVars, resVars, cmpVars, dlgVars, readVars, calVars>>
readRest  == <<coreVars, resVars, cmpVars, dlgVars, dataVars, calVars>>
calRest   == <<coreVars, resVars, cmpVars, dlgVars, dataVars, readVars>>
vars      == <<coreVars, auxVars>>

-----------------------------------------------------------------------------
(* Bounds *)
MaxRuns == 3
MaxClock == 2
MaxResolves == 3
MaxEntries == 2
TimeoutSeconds == 3
MaxWait == 5
MaxSheets == 2

-----------------------------------------------------------------------------
(* Strings *)

Digits == <<"0", "1", "2", "3", "4", "5", "6", "7", "8", "9">>

RECURSIVE NumStr(_)
NumStr(n) == IF n < 10 THEN Digits[n + 1] ELSE NumStr(n \div 10) \o Digits[(n % 10) + 1]

MonthFull == <<"January", "February", "March", "April", "May", "June", "July",
               "August", "September", "October", "November", "December">>

MonthAbbr == <<"Jan", "Feb", "Mar", "Apr", "May", "Jun", "Jul",
               "Aug", "Sep", "Oct", "Nov", "Dec">>

\* str.strip() restricted to blanks
RECURSIVE Strip(_)
Strip(s) ==
    IF Len(s) = 0 THEN s
    ELSE IF SubSeq(s, 1, 1) = " " THEN Strip(SubSeq(s, 2, Len(s)))
    ELSE IF SubSeq(s, Len(s), Len(s)) = " " THEN Strip(SubSeq(s, 1, Len(s) - 1))
    ELSE s

\* format_date_range writing a range of one day as that day alone
format_single_day_short(d, full_month_name) ==
    LET months == IF full_month_name THEN MonthFull ELSE MonthAbbr IN
    IF d.sm = d.em /\ d.sy = d.ey /\ d.sd = d.ed
    THEN NumStr(d.sd) \o " " \o months[d.sm] \o " " \o NumStr(d.sy)
    ELSE IF d.sm = d.em /\ d.sy = d.ey
    THEN NumStr(d.sd) \o "-" \o NumStr(d.ed) \o " " \o months[d.sm] \o " " \o NumStr(d.sy)
    ELSE NumStr(d.sd) \o " " \o months[d.sm] \o " - " \o NumStr(d.ed) \o " "
             \o months[d.em] \o " " \o NumStr(d.ey)

\* comparison.format_date_range
format_date_range(d, full_month_name) ==
    LET months == IF full_month_name THEN MonthFull ELSE MonthAbbr IN
    IF d.sm = d.em /\ d.sy = d.ey
    THEN NumStr(d.sd) \o "-" \o NumStr(d.ed) \o " " \o months[d.sm] \o " " \o NumStr(d.sy)
    ELSE NumStr(d.sd) \o " " \o months[d.sm] \o " - " \o NumStr(d.ed) \o " "
             \o months[d.em] \o " " \o NumStr(d.ey)

-----------------------------------------------------------------------------
(* The workbook: a function from sheet names to the sheet's rows.  A row   *)
(* keeps the text of column 1 (t) and the number of the run that wrote it  *)
(* (r, 0 for rows present before the first modelled run).                  *)

Row(text, n) == [t |-> text, r |-> n]

DateRanges ==
    { [sd |-> 2,  sm |-> 6, sy |-> 2025, ed |-> 6, em |-> 6, ey |-> 2025],
      [sd |-> 30, sm |-> 6, sy |-> 2025, ed |-> 4, em |-> 7, ey |-> 2025] }

\* DateRangeResult.year
YearOf(d) == NumStr(d.ey)

\* a new workbook holding only Excel's empty default sheet
FreshWorkbook == "Sheet1" :> << >>

\* a workbook in use: the year sheets exist and hold an earlier week
UsedWorkbook ==
    ("ER 2025" :> << Row("26-30 May 2025", 0), Row("NIL", 0) >>)
    @@ ("GSN VS AD 2025" :> << Row("", 0), Row("26-30 May 2025 GSN VS AD", 0),
                               Row("In GSN not in AD", 0), Row("SGPC001", 0) >>)

InitialWorkbooks == {FreshWorkbook, UsedWorkbook}

Variants == {"current", "legacy"}

NoApp == [excel |-> "null", workbook |-> "null", worksheet |-> "null"]

\* the second-resolution clock read by datetime.now(), as a small counter
TimeStr(c) == "12000" \o NumStr(c)

Remove(w, name) == [n \in DOMAIN w \ {name} |-> w[n]]

Put(w, name, rows) == (name :> rows) @@ w

\* ExcelUpdater._worksheet_exists: Worksheets(name) raises for a missing name
worksheet_exists(w, name) == name \in DOMAIN w

\* the loop "while copy_number <= 100" started at copy_number: the first
\* numbered name not taken, else the timestamp name
numbered_copy(w, base_name, copy_number, c) ==
    LET numbered_copy_name(n) == base_name \o " (copy " \o NumStr(n) \o ")"
        free == {n \in copy_number..100 : ~worksheet_exists(w, numbered_copy_name(n))}
    IN IF free = {}
       THEN base_name \o " (20250606_" \o TimeStr(c) \o ")"
       ELSE numbered_copy_name(CHOOSE n \in free : \A m \in free : n <= m)

\* the lookup with the "(copy)" name left out of the order
find_available_numbered_first(w, base_name, c) ==
    IF ~worksheet_exists(w, base_name) THEN base_name
    ELSE numbered_copy(w, base_name, 2, c)

\* ExcelUpdater._find_available_worksheet_name
find_available_worksheet_name(w, base_name, c) ==
    IF ~worksheet_exists(w, base_name) THEN base_name
    ELSE IF ~worksheet_exists(w, base_name \o " (copy)") THEN base_name \o " (copy)"
    ELSE numbered_copy(w, base_name, 2, c)

InvalidChars == {"\\", "/", "?", "*", "[", "]", ":"}

RECURSIVE replace_invalid(_)
replace_invalid(s) ==
    IF Len(s) = 0 THEN s
    ELSE (IF SubSeq(s, 1, 1) \in InvalidChars THEN "_" ELSE SubSeq(s, 1, 1))
         \o replace_invalid(SubSeq(s, 2, Len(s)))

\* ExcelUpdater._clean_worksheet_name
clean_worksheet_name(name) ==
    IF Len(name) = 0 THEN "Sheet"
    ELSE LET c1 == replace_invalid(name)
             c2 == IF Len(c1) > 31 THEN SubSeq(c1, 1, 31) ELSE c1
             c3 == IF Len(Strip(c2)) = 0 THEN "Sheet" ELSE c2
             c4 == IF c3 = "history" \/ c3 = "History" \/ c3 = "HISTORY"
                   THEN "Report_History" ELSE c3
         IN Strip(c4)

RECURSIVE all_digits(_)
all_digits(s) ==
    IF Len(s) = 0 THEN TRUE
    ELSE /\ \E i \in 1..10 : Digits[i] = SubSeq(s, 1, 1)
         /\ all_digits(SubSeq(s, 2, Len(s)))

\* the test of _cleanup_default_sheets: "Sheet<digits>" and no data
is_empty_default_sheet(w, n) ==
    /\ Len(n) > 5
    /\ SubSeq(n, 1, 5) = "Sheet"
    /\ all_digits(SubSeq(n, 6, Len(n)))
    /\ w[n] = << >>

\* ExcelUpdater._cleanup_default_sheets; Excel refuses to delete the last
\* sheet of a workbook and that failure is only logged
cleanup_default_sheets(w) ==
    LET keep == {m \in DOMAIN w : ~is_empty_default_sheet(w, m)} IN
    IF keep = {} /\ DOMAIN w # {}
    THEN LET last == CHOOSE m \in DOMAIN w : TRUE IN (last :> w[last])
    ELSE [n \in keep |-> w[n]]

\* The retry loop of _create_new_worksheet.  addFails: Worksheets.Add()
\* raises.  Setting worksheet.Name raises when the name is already taken; the
\* sheet just added is then deleted again.  On the last attempt the fallback
\* name "Report_HHMMSS" is tried once.  Yields the workbook and the name of
\* the created sheet ("" for None).
RECURSIVE create_attempts(_, _, _, _, _)
create_attempts(w, clean_name, attempt, addFails, c) ==
    IF attempt >= 3 THEN [wb |-> w, name |-> ""]
    ELSE IF addFails THEN create_attempts(w, clean_name, attempt + 1, addFails, c)
    ELSE IF clean_name \notin DOMAIN w
         THEN [wb |-> Put(w, clean_name, << >>), name |-> clean_name]
    ELSE IF attempt = 2
         THEN LET fallback_name == "Report_" \o TimeStr(c) IN
              IF fallback_name \notin DOMAIN w
              THEN [wb |-> Put(w, fallback_name, << >>), name |-> fallback_name]
              ELSE [wb |-> w, name |-> ""]
    ELSE create_attempts(w, clean_name, attempt + 1, addFails, c)

\* ExcelUpdater._create_new_worksheet
create_new_worksheet(w, worksheet_name, addFails, c) ==
    create_attempts(cleanup_default_sheets(w), clean_worksheet_name(worksheet_name),
                    0, addFails, c)

\* the legacy helper: an existing sheet is cleared and reused
find_or_create_worksheet(w, sheet_name, addFails) ==
    IF sheet_name \in DOMAIN w
    THEN [wb |-> Put(w, sheet_name, << >>), name |-> sheet_name]
    ELSE IF addFails THEN [wb |-> w, name |-> ""]
    ELSE [wb |-> Put(w, sheet_name, << >>), name |-> sheet_name]

\* ExcelUpdater._date_range_exists_in_worksheet
date_range_exists_in_worksheet(rows, date_range_text) ==
    \E i \in 1..Len(rows) : Strip(rows[i].t) = date_range_text

-----------------------------------------------------------------------------
(* The write path: update_excel_file -> ExcelUpdater.analyze_excel_file    *)

MonthUpper == <<"JANUARY", "FEBRUARY", "MARCH", "APRIL", "MAY", "JUNE", "JULY",
                "AUGUST", "SEPTEMBER", "OCTOBER", "NOVEMBER", "DECEMBER">>

NoRets == [gsner |-> "none", nologon |-> "none", gsnad |-> "none", save |-> "none"]

\* one environment fault (a COM call raising) is injected per run at most
CanFail == run.failed = {}

Failed(what) == [run EXCEPT !.failed = @ \cup {what}]

\* rows written into a new GSN VS ER sheet (column 1): header, data
GsnerRows(n, complete) ==
    IF complete THEN << Row("GSN", n), Row("SGPC001", n) >> ELSE << Row("GSN", n) >>

\* rows appended to the "ER <year>" sheet
NologonRows(d, n, complete) ==
    IF complete THEN << Row(format_date_range(d, FALSE), n), Row("SGPC002", n) >>
    ELSE << Row(format_date_range(d, FALSE), n) >>

\* rows appended to the "GSN VS AD <year>" sheet: gap row, optional month
\* header, date range header, column headers, data
GsnadRows(d, n, complete) ==
    LET date_range_text == format_date_range(d, TRUE)
        head == << Row("", n) >>
                \o (IF d.sd < 5 THEN << Row(MonthUpper[d.sm], n) >> ELSE << >>)
                \o << Row(date_range_text \o " GSN VS AD", n) >>
    IN IF complete THEN head \o << Row("In GSN not in AD", n), Row("SGPC001", n) >>
       ELSE head

\* ExcelApplication.close() in the two versions of excel_functions.py.
\* closeFault: "close" = workbook.Close raises, "quit" = excel.Quit raises.
\* Yields the handles and the state of the Excel process afterwards
\* (procs: a raising Quit leaves it undetermined whether Excel went away).
close_current(a, closeFault) ==
    [app |-> NoApp,
     procs |-> IF a.excel = "null" THEN {excelProc}
               ELSE IF closeFault = "quit" THEN {"running", "quit"} ELSE {"quit"}]

close_legacy(a, closeFault) ==
    IF a.workbook # "null" /\ closeFault = "close"
    THEN [app |-> [a EXCEPT !.worksheet = "null"], procs |-> {excelProc}]
    ELSE IF a.excel # "null" /\ closeFault = "quit"
    THEN [app |-> [a EXCEPT !.worksheet = "null", !.workbook = "null"],
          procs |-> {"running", "quit"}]
    ELSE [app |-> NoApp, procs |-> IF a.excel = "null" THEN {excelProc} ELSE {"quit"}]

close(a, closeFault) ==
    IF run.variant = "current" THEN close_current(a, closeFault)
    ELSE close_legacy(a, closeFault)

\* the exit of analyze_excel_file through its finally clause:
\* close() runs, then the result goes to update_excel_file
AnalyzeExit(result, a, r) ==
    \E closeFault \in {"none", "close", "quit"} :
        /\ closeFault # "none" => r.failed = {}
        /\ LET cl == close(a, closeFault) IN
           /\ app' = cl.app
           /\ excelProc' \in cl.procs
        /\ run' = IF closeFault = "none" THEN r
                  ELSE [r EXCEPT !.failed = @ \cup {closeFault}]
        /\ closeCalled' = TRUE
        /\ wresult' = result
        /\ wb' = << >>
        /\ wpc' = "analyzed"

\* update_excel_file: ExcelUpdater(SYNCED_FILE_PATH) starts Excel
StartRun ==
    /\ wpc \in {"idle", "returned"}
    /\ run.no < MaxRuns
    /\ \E v \in Variants, d \in DateRanges :
           run' = [no |-> run.no + 1, variant |-> v, date |-> d, failed |-> {}]
    /\ app' = [excel |-> "app", workbook |-> "null", worksheet |-> "null"]
    /\ excelProc' = "running"
    /\ wpc' = "constructed"
    /\ stepRet' = NoRets
    /\ wresult' = "none"
    /\ pipeResult' = "none"
    /\ closeCalled' = FALSE
    /\ UNCHANGED <<disk, wb>>
    /\ UNCHANGED <<runVars, extVars, auxVars>>

\* analyze_excel_file, first statement: open_workbook; a failure returns
\* False before the try block is entered
OpenWorkbook ==
    /\ wpc = "constructed"
    /\ \/ /\ app' = [app EXCEPT !.workbook = "open"]
          /\ wb' = disk
          /\ wpc' = "opened"
          /\ UNCHANGED <<run, wresult>>
       \/ /\ CanFail
          /\ run' = Failed("open")
          /\ wresult' = "False"
          /\ wpc' = "analyzed"
          /\ UNCHANGED <<app, wb>>
    /\ UNCHANGED <<disk, excelProc, stepRet, pipeResult, closeCalled>>
    /\ UNCHANGED <<runVars, extVars, auxVars>>

\* _display_worksheet_info: unguarded COM reads inside the try block
DisplayWorksheetInfo ==
    /\ wpc = "opened"
    /\ \/ /\ wpc' = "displayed"
          /\ UNCHANGED <<wb, app, excelProc, run, wresult, closeCalled>>
       \/ /\ CanFail
          /\ AnalyzeExit("False", app, Failed("display"))
    /\ UNCHANGED <<disk, stepRet, pipeResult>>
    /\ UNCHANGED <<runVars, extVars, auxVars>>

\* ExcelUpdater._update_gsner_worksheet, current version: resolve a free
\* name, create a new sheet, write into it; every failure is caught inside
\* and answered with False
update_gsner_current(addFails, writeFails, c) ==
    LET base_worksheet_name == "GSN VS ER " \o format_date_range(run.date, FALSE)
        worksheet_name == find_available_worksheet_name(wb, base_worksheet_name, c)
        cr == create_new_worksheet(wb, worksheet_name, addFails, c)
    IN IF cr.name = "" THEN [wb |-> cr.wb, ret |-> "False", raised |-> FALSE, ws |-> app.worksheet]
       ELSE [wb |-> Put(cr.wb, cr.name, GsnerRows(run.no, ~writeFails)),
             ret |-> IF writeFails THEN "False" ELSE "True",
             raised |-> FALSE, ws |-> app.worksheet]

\* ExcelUpdater._update_gsner_worksheet, legacy version: find_or_create
\* clears a sheet of that name; the writes are not guarded
update_gsner_legacy(addFails, writeFails) ==
    LET worksheet_name == "GSN VS ER " \o format_date_range(run.date, FALSE)
        fc == find_or_create_worksheet(wb, worksheet_name, addFails)
    IN IF fc.name = "" THEN [wb |-> fc.wb, ret |-> "False", raised |-> FALSE, ws |-> app.worksheet]
       ELSE [wb |-> Put(fc.wb, fc.name, GsnerRows(run.no, ~writeFails)),
             ret |-> IF writeFails THEN "none" ELSE "True",
             raised |-> writeFails, ws |-> "ws"]

update_gsner_worksheet(addFails, writeFails, c) ==
    IF run.variant = "current" THEN update_gsner_current(addFails, writeFails, c)
    ELSE update_gsner_legacy(addFails, writeFails)

\* analyze_excel_file: the call of _update_gsner_worksheet; its return value
\* is not looked at
UpdateGsner ==
    /\ wpc = "displayed"
    /\ \E addFails \in BOOLEAN, writeFails \in BOOLEAN, c \in 0..MaxClock :
        /\ ~(addFails /\ writeFails)
        /\ (addFails \/ writeFails) => CanFail
        /\ LET u == update_gsner_worksheet(addFails, writeFails, c)
               r == IF addFails THEN Failed("add_gsner")
                    ELSE IF writeFails THEN Failed("write_gsner") ELSE run
           IN IF u.raised
              THEN /\ AnalyzeExit("False", [app EXCEPT !.worksheet = u.ws], r)
                   /\ UNCHANGED stepRet
              ELSE /\ wb' = u.wb
                   /\ stepRet' = [stepRet EXCEPT !.gsner = u.ret]
                   /\ app' = [app EXCEPT !.worksheet = u.ws]
                   /\ run' = r
                   /\ wpc' = "gsner"
                   /\ UNCHANGED <<excelProc, wresult, closeCalled>>
    /\ UNCHANGED <<disk, pipeResult>>
    /\ UNCHANGED <<runVars, extVars, auxVars>>

\* ExcelUpdater._update_er_nologon_worksheet, current version: the year sheet
\* is created when missing and the block is appended even when the date range
\* is already there
update_er_nologon_current(addFails, writeFails, c) ==
    LET year_worksheet_name == "ER " \o YearOf(run.date)
        found == year_worksheet_name \in DOMAIN wb
        cr == IF found THEN [wb |-> wb, name |-> year_worksheet_name]
              ELSE create_new_worksheet(wb, year_worksheet_name, addFails, c)
    IN IF cr.name = "" THEN [wb |-> cr.wb, ret |-> "False"]
       ELSE [wb |-> Put(cr.wb, cr.name,
                        cr.wb[cr.name] \o NologonRows(run.date, run.no, ~writeFails)),
             ret |-> IF writeFails THEN "False" ELSE "True"]

\* ExcelUpdater._update_er_nologon_worksheet, legacy version: a missing sheet
\* is a failure, a date range already present is skipped
update_er_nologon_legacy(writeFails) ==
    LET year_worksheet_name == "ER " \o YearOf(run.date)
        date_range_formatted == format_date_range(run.date, FALSE)
    IN IF year_worksheet_name \notin DOMAIN wb THEN [wb |-> wb, ret |-> "False"]
       ELSE IF \E i \in 1..Len(wb[year_worksheet_name]) :
                   wb[year_worksheet_name][i].t = date_range_formatted
       THEN [wb |-> wb, ret |-> "True"]
       ELSE [wb |-> Put(wb, year_worksheet_name,
                        wb[year_worksheet_name] \o NologonRows(run.date, run.no, ~writeFails)),
             ret |-> IF writeFails THEN "False" ELSE "True"]

update_er_nologon_worksheet(addFails, writeFails, c) ==
    IF run.variant = "current" THEN update_er_nologon_current(addFails, writeFails, c)
    ELSE update_er_nologon_legacy(writeFails)

\* analyze_excel_file: the call of _update_er_nologon_worksheet
UpdateErNologon ==
    /\ wpc = "gsner"
    /\ \E addFails \in BOOLEAN, writeFails \in BOOLEAN, c \in 0..MaxClock :
        /\ ~(addFails /\ writeFails)
        /\ (addFails \/ writeFails) => CanFail
        /\ LET u == update_er_nologon_worksheet(addFails, writeFails, c) IN
           /\ wb' = u.wb
           /\ stepRet' = [stepRet EXCEPT !.nologon = u.ret]
           /\ run' = IF addFails THEN Failed("add_nologon")
                     ELSE IF writeFails THEN Failed("write_nologon") ELSE run
    /\ wpc' = "nologon"
    /\ UNCHANGED <<disk, app, excelProc, wresult, pipeResult, closeCalled>>
    /\ UNCHANGED <<runVars, extVars, auxVars>>

\* ExcelUpdater._update_gsnvsad_worksheet, current version
update_gsnvsad_current(addFails, writeFails, c) ==
    LET base_target_worksheet_name == "GSN VS AD " \o YearOf(run.date)
        date_range_text == format_date_range(run.date, TRUE)
        found == base_target_worksheet_name \in DOMAIN wb
        cr == IF found
              THEN IF date_range_exists_in_worksheet(wb[base_target_worksheet_name],
                                                     date_range_text)
                   THEN create_new_worksheet(wb,
                            find_available_worksheet_name(wb, base_target_worksheet_name, c),
                            addFails, c)
                   ELSE [wb |-> wb, name |-> base_target_worksheet_name]
              ELSE create_new_worksheet(wb, base_target_worksheet_name, addFails, c)
    IN IF cr.name = "" THEN [wb |-> cr.wb, ret |-> "False"]
       ELSE [wb |-> Put(cr.wb, cr.name,
                        cr.wb[cr.name] \o GsnadRows(run.date, run.no, ~writeFails)),
             ret |-> IF writeFails THEN "False" ELSE "True"]

\* ExcelUpdater._update_gsnvsad_worksheet, legacy version
update_gsnvsad_legacy(writeFails) ==
    LET target_worksheet_name == "GSN VS AD " \o YearOf(run.date) IN
    IF target_worksheet_name \notin DOMAIN wb THEN [wb |-> wb, ret |-> "False"]
    ELSE [wb |-> Put(wb, target_worksheet_name,
                     wb[target_worksheet_name] \o GsnadRows(run.date, run.no, ~writeFails)),
          ret |-> IF writeFails THEN "False" ELSE "True"]

update_gsnvsad_worksheet(addFails, writeFails, c) ==
    IF run.variant = "current" THEN update_gsnvsad_current(addFails, writeFails, c)
    ELSE update_gsnvsad_legacy(writeFails)

\* analyze_excel_file: the call of _update_gsnvsad_worksheet
UpdateGsnVsAd ==
    /\ wpc = "nologon"
    /\ \E addFails \in BOOLEAN, writeFails \in BOOLEAN, c \in 0..MaxClock :
        /\ ~(addFails /\ writeFails)
        /\ (addFails \/ writeFails) => CanFail
        /\ LET u == update_gsnvsad_worksheet(addFails, writeFails, c) IN
           /\ wb' = u.wb
           /\ stepRet' = [stepRet EXCEPT !.gsnad = u.ret]
           /\ run' = IF addFails THEN Failed("add_gsnad")
                     ELSE IF writeFails THEN Failed("write_gsnad") ELSE run
    /\ wpc' = "gsnad"
    /\ UNCHANGED <<disk, app, excelProc, wresult, pipeResult, closeCalled>>
    /\ UNCHANGED <<runVars, extVars, auxVars>>

\* ExcelApplication.save: every failure of workbook.Save() is caught and
\* answered with False
save(saveFails) ==
    IF app.workbook = "null" \/ saveFails THEN [disk |-> disk, ret |-> "False"]
    ELSE [disk |-> wb, ret |-> "True"]

\* analyze_excel_file: self.excel_app.save(), return value not looked at
SaveWorkbook ==
    /\ wpc = "gsnad"
    /\ \E saveFails \in BOOLEAN :
        /\ saveFails => CanFail
        /\ LET sv == save(saveFails) IN
           /\ disk' = sv.disk
           /\ stepRet' = [stepRet EXCEPT !.save = sv.ret]
        /\ run' = IF saveFails THEN Failed("save") ELSE run
    /\ wpc' = "saved"
    /\ UNCHANGED <<wb, app, excelProc, wresult, pipeResult, closeCalled>>
    /\ UNCHANGED <<runVars, extVars, auxVars>>

\* analyze_excel_file: "return True", then the finally clause
AnalyzeReturn ==
    /\ wpc = "saved"
    /\ AnalyzeExit("True", app, run)
    /\ UNCHANGED <<disk, stepRet, pipeResult>>
    /\ UNCHANGED <<runVars, extVars, auxVars>>

\* update_excel_file hands the result of analyze_excel_file to the pipeline
UpdateExcelFileReturn ==
    /\ wpc = "analyzed"
    /\ pipeResult' = wresult
    /\ wpc' = "returned"
    /\ UNCHANGED <<disk, wb, app, excelProc, run, stepRet, wresult, closeCalled>>
    /\ UNCHANGED <<runVars, extVars, auxVars>>

-----------------------------------------------------------------------------
(* The pipeline orchestrator: run_sharepoint_automation and the global    *)
(* flag _USER_TERMINATED.  terminate_process() is called from the user     *)
(* interface and can arrive at any moment.                                 *)

MaxPipelineRuns == 2

\* the positions of a run at which the write step has not been reached yet
BeforeWrite == {"excel", "cp1", "date", "cp2", "files", "cp3", "data", "cp4"}

ReturnFalse ==
    /\ rret' = "False"
    /\ rpc' = "done"
    /\ runsDone' = runsDone + 1

\* terminate_process
terminate_process ==
    /\ terminated' = TRUE
    /\ raisedAt' = raisedAt \cup {rpc}
    /\ UNCHANGED <<rpc, rret, writeTried, runsDone>>
    /\ UNCHANGED <<writeVars, extVars, auxVars>>

\* run_sharepoint_automation, entry: the flag is reset, then check_run_date
\* (skipped in manual mode) may end the run
RunBegin ==
    /\ rpc \in {"idle", "done"}
    /\ runsDone < MaxPipelineRuns
    /\ terminated' = FALSE
    /\ raisedAt' = IF terminated THEN {"before"} ELSE {}
    /\ writeTried' = FALSE
    /\ \E manual_mode \in BOOLEAN, run_day \in BOOLEAN :
          IF ~manual_mode /\ ~run_day
          THEN ReturnFalse
          ELSE /\ rpc' = "excel"
               /\ rret' = "none"
               /\ UNCHANGED runsDone
    /\ UNCHANGED <<writeVars, extVars, auxVars>>

\* manage_excel: check_excel_processes and warm_up_excel
ManageExcel ==
    /\ rpc = "excel"
    /\ rpc' = "cp1"
    /\ UNCHANGED <<terminated, rret, writeTried, raisedAt, runsDone>>
    /\ UNCHANGED <<writeVars, extVars, auxVars>>

\* "Check if user terminated during Excel management"
Checkpoint1 ==
    /\ rpc = "cp1"
    /\ IF terminated THEN ReturnFalse
       ELSE rpc' = "date" /\ UNCHANGED <<rret, runsDone>>
    /\ UNCHANGED <<terminated, writeTried, raisedAt>>
    /\ UNCHANGED <<writeVars, extVars, auxVars>>

\* get_date_range: the dialog ends with the user's dates, with the automatic
\* dates (button or timeout), with a termination request, or with nothing
GetDateRange ==
    /\ rpc = "date"
    /\ \E outcome \in {"selected", "auto", "auto_failed", "user_terminated", "none"} :
        /\ terminated' = (terminated \/ outcome = "user_terminated")
        /\ raisedAt' = IF outcome = "user_terminated" THEN raisedAt \cup {"date"}
                       ELSE raisedAt
        /\ rpc' = IF outcome \in {"selected", "auto"} THEN "cp2" ELSE "nodate"
    /\ UNCHANGED <<rret, writeTried, runsDone>>
    /\ UNCHANGED <<writeVars, extVars, auxVars>>

\* "if not date_range or not date_range.is_valid": return False either way
NoDateRange ==
    /\ rpc = "nodate"
    /\ ReturnFalse
    /\ UNCHANGED <<terminated, writeTried, raisedAt>>
    /\ UNCHANGED <<writeVars, extVars, auxVars>>

\* "Check if user terminated after date selection"
Checkpoint2 ==
    /\ rpc = "cp2"
    /\ IF terminated THEN ReturnFalse
       ELSE rpc' = "files" /\ UNCHANGED <<rret, runsDone>>
    /\ UNCHANGED <<terminated, writeTried, raisedAt>>
    /\ UNCHANGED <<writeVars, extVars, auxVars>>

\* find_required_files; no files: return False
FindRequiredFiles ==
    /\ rpc = "files"
    /\ \E found \in BOOLEAN :
          IF found THEN rpc' = "cp3" /\ UNCHANGED <<rret, runsDone>>
          ELSE ReturnFalse
    /\ UNCHANGED <<terminated, writeTried, raisedAt>>
    /\ UNCHANGED <<writeVars, extVars, auxVars>>

\* "Check if user terminated during file search"
Checkpoint3 ==
    /\ rpc = "cp3"
    /\ IF terminated THEN ReturnFalse
       ELSE rpc' = "data" /\ UNCHANGED <<rret, runsDone>>
    /\ UNCHANGED <<terminated, writeTried, raisedAt>>
    /\ UNCHANGED <<writeVars, extVars, auxVars>>

\* process_data; no results: return False
ProcessData ==
    /\ rpc = "data"
    /\ \E ok \in BOOLEAN :
          IF ok THEN rpc' = "cp4" /\ UNCHANGED <<rret, runsDone>>
          ELSE ReturnFalse
    /\ UNCHANGED <<terminated, writeTried, raisedAt>>
    /\ UNCHANGED <<writeVars, extVars, auxVars>>

\* the last checkpoint with its test of the flag left out
Checkpoint4_unchecked ==
    /\ rpc = "cp4"
    /\ rpc' = "write"
    /\ UNCHANGED <<rret, runsDone>>
    /\ UNCHANGED <<terminated, writeTried, raisedAt>>
    /\ UNCHANGED <<writeVars, extVars, auxVars>>

\* "Check if user terminated during data processing"
Checkpoint4 ==
    /\ rpc = "cp4"
    /\ IF terminated THEN ReturnFalse
       ELSE rpc' = "write" /\ UNCHANGED <<rret, runsDone>>
    /\ UNCHANGED <<terminated, writeTried, raisedAt>>
    /\ UNCHANGED <<writeVars, extVars, auxVars>>

\* update_excel_file is called and its result returned
UpdateExcelFile ==
    /\ rpc = "write"
    /\ writeTried' = TRUE
    /\ \E success \in {"True", "False"} : rret' = success
    /\ rpc' = "done"
    /\ runsDone' = runsDone + 1
    /\ UNCHANGED <<terminated, raisedAt>>
    /\ UNCHANGED <<writeVars, extVars, auxVars>>

-----------------------------------------------------------------------------
(* Block extraction: string helpers                                        *)

Ch(s, i) == SubSeq(s, i, i)

UpperLetters == <<"A", "B", "C", "D", "E", "F", "G", "H", "I", "J", "K", "L", "M",
                  "N", "O", "P", "Q", "R", "S", "T", "U", "V", "W", "X", "Y", "Z">>

LowerLetters == <<"a", "b", "c", "d", "e", "f", "g", "h", "i", "j", "k", "l", "m",
                  "n", "o", "p", "q", "r", "s", "t", "u", "v", "w", "x", "y", "z">>

IsDigit(ch) == \E i \in 1..10 : Digits[i] = ch

IsAlpha(ch) == \E i \in 1..26 : UpperLetters[i] = ch \/ LowerLetters[i] = ch

InClass(ch, cls) ==
    CASE cls = "d" -> IsDigit(ch)
      [] cls = "a" -> IsAlpha(ch)
      [] cls = "s" -> ch = " "
      [] cls = "w" -> IsDigit(ch) \/ IsAlpha(ch) \/ ch = "_"

\* the index after the longest run of characters of a class starting at i
RECURSIVE run_end(_, _, _)
run_end(s, i, cls) ==
    IF i <= Len(s) /\ InClass(Ch(s, i), cls) THEN run_end(s, i + 1, cls) ELSE i

\* str.upper()
RECURSIVE upper(_)
upper(s) ==
    IF Len(s) = 0 THEN s
    ELSE (IF \E i \in 1..26 : LowerLetters[i] = Ch(s, 1)
          THEN UpperLetters[CHOOSE i \in 1..26 : LowerLetters[i] = Ch(s, 1)]
          ELSE Ch(s, 1))
         \o upper(SubSeq(s, 2, Len(s)))

\* Python "sub in s"
Contains(s, sub) ==
    \E i \in 1..(Len(s) - Len(sub) + 1) : SubSeq(s, i, i + Len(sub) - 1) = sub

\* str.replace(old, new)
RECURSIVE str_replace(_, _, _)
str_replace(s, old, new) ==
    IF Len(s) < Len(old) THEN s
    ELSE IF SubSeq(s, 1, Len(old)) = old
         THEN new \o str_replace(SubSeq(s, Len(old) + 1, Len(s)), old, new)
    ELSE Ch(s, 1) \o str_replace(SubSeq(s, 2, Len(s)), old, new)

\* a match of r'\d+-\d+\s+[A-Za-z]+\s+\d{4}' beginning at index i
date_pattern_at(s, i) ==
    LET a == run_end(s, i, "d")
        b == run_end(s, a + 1, "d")
        c == run_end(s, b, "s")
        d == run_end(s, c, "a")
        e == run_end(s, d, "s")
    IN /\ a > i
       /\ a <= Len(s)
       /\ Ch(s, a) = "-"
       /\ b > a + 1
       /\ c > b
       /\ d > c
       /\ e > d
       /\ e + 3 <= Len(s)
       /\ \A k \in e..(e + 3) : IsDigit(Ch(s, k))

\* re.search(date_pattern, s)
date_pattern_search(s) == \E i \in 1..Len(s) : date_pattern_at(s, i)

\* ERExtractor.format_date_for_search: full month names to abbreviations
RECURSIVE abbreviate_months(_, _)
abbreviate_months(s, m) ==
    IF m > 12 THEN s
    ELSE abbreviate_months(str_replace(s, MonthFull[m], MonthAbbr[m]), m + 1)

format_date_for_search(date_range_str) == abbreviate_months(date_range_str, 1)

\* GSNvsERExtractor.determine_worksheet_name: the sheet the GSN VS ER report
\* is read from
determine_worksheet_name(date_range_str) ==
    "GSN VS ER " \o abbreviate_months(date_range_str, 1)

\* the first match of r'(\w+)\s+(\d{4})' at or after index i: <<start, end of
\* word, start of year>>, or << >> when there is none
RECURSIVE word_year_match(_, _)
word_year_match(s, i) ==
    IF i > Len(s) THEN << >>
    ELSE LET a == run_end(s, i, "w")
             b == run_end(s, a, "s")
         IN IF /\ a > i
               /\ b > a
               /\ b + 3 <= Len(s)
               /\ \A k \in b..(b + 3) : IsDigit(Ch(s, k))
            THEN <<i, a, b>>
            ELSE word_year_match(s, i + 1)

\* re.sub(r'(\w+)\s+(\d{4})', lambda m: m.group(1)[:3] + ' ' + m.group(2), s)
RECURSIVE abbreviate_word_before_year(_)
abbreviate_word_before_year(s) ==
    LET m == word_year_match(s, 1) IN
    IF m = << >> THEN s
    ELSE LET word == SubSeq(s, m[1], m[2] - 1)
             short == IF Len(word) > 3 THEN SubSeq(word, 1, 3) ELSE word
         IN SubSeq(s, 1, m[1] - 1) \o short \o " " \o SubSeq(s, m[3], m[3] + 3)
            \o abbreviate_word_before_year(SubSeq(s, m[3] + 4, Len(s)))

\* GSNvsADExtractor.determine_target_row_text
determine_target_row_text(date_range_str) ==
    { date_range_str \o " GSN VS AD",
      abbreviate_word_before_year(date_range_str) \o " GSN VS AD" }

-----------------------------------------------------------------------------
(* Block extraction: worksheets.  A row keeps the text of its first six    *)
(* columns (c, "" for an empty cell) and the raw fill rgb of its first     *)
(* three columns (f) as openpyxl reports it.                                *)

MaxSheetLen == 3
ExtraRows == 1

XRow(c, f) == [c |-> c, f |-> f]

\* the date range the extractors are asked for, and another week
DateRangeStr == "2-6 June 2025"

OtherRangeStr == "9-13 June 2025"

\* fill of a cell without a fill, and the header fill the writer applies
NoFill == <<"00000000", "00000000", "00000000">>

HeaderFill == <<"FFAEAAAA", "FFAEAAAA", "FFAEAAAA">>

\* rows of an "ER <year>" sheet: the block header as the writer fills it, the
\* same header without fill, a data row
ERHeader == XRow(<<format_date_for_search(DateRangeStr), "", "", "", "", "">>, HeaderFill)

ERHeaderPlain == XRow(<<format_date_for_search(DateRangeStr), "", "", "", "", "">>, NoFill)

ERData == XRow(<<"SGPC002", "SN0002", "35", "", "", "">>, NoFill)

\* further rows: the date range in column 4 only, an empty row, the header of
\* another week with and without fill, another week's range in column 2 and
\* inside the text of column 5, a data row with a light gray third cell
ERTemplates ==
    { ERHeader, ERHeaderPlain, ERData,
      XRow(<<"", "", "", format_date_for_search(DateRangeStr), "", "">>, NoFill),
      XRow(<<"", "", "", "", "", "">>, NoFill),
      XRow(<<format_date_for_search(OtherRangeStr), "", "", "", "", "">>, HeaderFill),
      XRow(<<format_date_for_search(OtherRangeStr), "", "", "", "", "">>, NoFill),
      XRow(<<"SGPC003", OtherRangeStr, "", "", "", "">>, NoFill),
      XRow(<<"SGPC003", "SN0003", "", "", "week " \o OtherRangeStr, "">>, NoFill),
      XRow(<<"SGPC004", "SN0004", "40", "", "", "">>, <<"00000000", "00000000", "ffefefef">>) }

\* rows of a "GSN VS ER <date range>" sheet (columns A, B, D, E are used)
GSNERHeader == XRow(<<"GSN", "ER", "", "In GSN but not in ER", "Remarks", "">>, NoFill)

GSNERData == XRow(<<"SGPC001", "SGPC002", "", "SGPC001", "new", "">>, NoFill)

GSNEROnlyA == XRow(<<"SGPC005", "", "", "", "", "">>, NoFill)

\* further rows: the second section header and the two count rows
GSNERTemplates ==
    { GSNERHeader, GSNERData, GSNEROnlyA,
      XRow(<<"", "", "", "In ER but not in GSN", "Remarks", "">>, NoFill),
      XRow(<<"", "", "", "GSN", "4", "">>, NoFill),
      XRow(<<"", "", "", "ER", "3", "">>, NoFill) }

\* rows of a "GSN VS AD <year>" sheet
GSNADHeader == XRow(<<DateRangeStr \o " GSN VS AD", "", "", "", "", "">>, NoFill)

GSNADData == XRow(<<"SGPC001", "", "", "SGPC009", "", "">>, NoFill)

\* further rows: the header with the abbreviated month, the header in column
\* 2, the column headers, a row with data in column D only, an empty row, the
\* header of another week
GSNADTemplates ==
    { GSNADHeader, GSNADData,
      XRow(<<format_date_for_search(DateRangeStr) \o " GSN VS AD", "", "", "", "", "">>, NoFill),
      XRow(<<"", DateRangeStr \o " GSN VS AD", "", "", "", "">>, NoFill),
      XRow(<<"In GSN not in AD", "Remarks", "Action", "In AD not in GSN", "Remarks", "Action">>,
           NoFill),
      XRow(<<"", "", "", "SGPC010", "", "">>, NoFill),
      XRow(<<"", "", "", "", "", "">>, NoFill),
      XRow(<<OtherRangeStr \o " GSN VS AD", "", "", "", "", "">>, NoFill) }

\* rows of a weekly report sheet: the date range alone and inside a longer
\* text, a data row, an empty row, another week in column 1 and in column 2
WeeklyTemplates ==
    { XRow(<<DateRangeStr, "", "", "", "", "">>, NoFill),
      XRow(<<"Week " \o DateRangeStr \o " MFA", "", "", "", "", "">>, NoFill),
      XRow(<<"user1", "disabled", "", "", "", "">>, NoFill),
      XRow(<<"", "", "", "", "", "">>, NoFill),
      XRow(<<OtherRangeStr, "", "", "", "", "">>, NoFill),
      XRow(<<"user2", OtherRangeStr, "", "", "", "">>, NoFill) }

\* all sheets of up to MaxSheetLen rows over a set of rows
SmallSheets(T) == UNION { [1..n -> T] : n \in 1..MaxSheetLen }

\* a header row followed by n copies of a data row
LongSheet(h, d, n) == [i \in 1..(n + 1) |-> IF i = 1 THEN h ELSE d]

-----------------------------------------------------------------------------
(* Block extraction: the extractors                                        *)

ER_LIMIT == 200
GSNER_LIMIT == 100
GSNAD_LIMIT == 50
GSNER_HEADER_ROWS == 19

ExtractorVariants == {"ER", "GSNER", "GSNAD", "WEEKLY"}

\* the first index in 1..n satisfying a test, 0 when there is none
FirstRow(n, Test(_)) ==
    IF \E i \in 1..n : Test(i)
    THEN CHOOSE i \in 1..n : Test(i) /\ \A j \in 1..(i - 1) : ~Test(j)
    ELSE 0

\* ERExtractor.get_cell_formatting, the background colour
get_cell_formatting(rgb) ==
    IF rgb = "" THEN "#FFFFFF"
    ELSE IF Len(rgb) = 8 THEN "#" \o SubSeq(rgb, 3, 8)
    ELSE IF Len(rgb) = 6 THEN "#" \o rgb
    ELSE "#FFFFFF"

gray_colors == {"#AEAAAA", "#AEAAAE", "#AEAAA", "#EFEFEF", "#F2F2F2", "#E0E0E0", "#D3D3D3"}

\* extract_er_data: the colour test on the first three columns of a row
found_aeaaaa_color(row) ==
    \E k \in 1..3 :
        LET colour == upper(get_cell_formatting(row.f[k])) IN
        colour = "#AEAAAA" \/ colour \in {upper(g) : g \in gray_colors}

\* the date test of extract_er_data looking at column 1 only
er_another_date_range_col1(row, search_date_range) ==
    /\ row.c[1] # ""
    /\ date_pattern_search(row.c[1])
    /\ Strip(row.c[1]) # search_date_range

\* extract_er_data: "this row contains another date range"
er_another_date_range(row, search_date_range) ==
    \E k \in 1..Len(row.c) :
        /\ row.c[k] # ""
        /\ date_pattern_search(row.c[k])
        /\ Strip(row.c[k]) # search_date_range

\* extract_er_data: "reached the end of used range"
er_used_range_end(row) == \A k \in 1..3 : Strip(row.c[k]) = ""

\* the start row search of extract_er_data falling back to row 1, as the
\* GSN VS ER extractor does
er_find_start_fallback(sh, search_date_range) ==
    LET Has(i) == \E k \in 1..Len(sh[i].c) : Contains(sh[i].c[k], search_date_range)
    IN IF FirstRow(Len(sh), Has) = 0 THEN 1 ELSE FirstRow(Len(sh), Has)

\* extract_er_data: the search for start_row_index
er_find_start(sh, search_date_range) ==
    LET Has(i) == \E k \in 1..Len(sh[i].c) : Contains(sh[i].c[k], search_date_range)
    IN FirstRow(Len(sh), Has)

\* extract_er_data without its safety limit
er_limit_unchecked(extracted_rows_count) == FALSE

er_limit_reached(extracted_rows_count) == extracted_rows_count >= ER_LIMIT

\* extract_gsn_vs_er_data: the header search in column D of the first rows
gsner_find_header(sh) ==
    LET Has(i) == sh[i].c[4] # "" /\ Contains(sh[i].c[4], "In GSN but not in ER")
        n == IF Len(sh) < GSNER_HEADER_ROWS THEN Len(sh) ELSE GSNER_HEADER_ROWS
    IN FirstRow(n, Has)

\* extract_gsn_vs_er_data: start_row_index with its fallback to row 1
gsner_find_start(sh) ==
    IF gsner_find_header(sh) = 0 THEN 1 ELSE gsner_find_header(sh)

\* extract_gsn_vs_er_data: end_row_index, the first row from the start whose
\* column D is "GSN", else the last row
gsner_find_end(sh, start) ==
    LET Is(i) == i >= start /\ sh[i].c[4] = "GSN"
    IN IF FirstRow(Len(sh), Is) = 0 THEN Len(sh) ELSE FirstRow(Len(sh), Is)

gsner_limit_reached(extracted_rows_count) == extracted_rows_count >= GSNER_LIMIT

has_target(text, target_row_texts) == \E t \in target_row_texts : Contains(text, t)

\* extract_gsn_vs_ad_data: the search for start_row_index
gsnad_find_start(sh, target_row_texts) ==
    LET Has(i) == \E k \in 1..6 : sh[i].c[k] # "" /\ has_target(sh[i].c[k], target_row_texts)
    IN FirstRow(Len(sh), Has)

gsnad_all_columns_empty(row) == \A k \in 1..6 : Strip(row.c[k]) = ""

\* extract_gsn_vs_ad_data: column 1 holds the header of another block
gsnad_contains_date_range(row, target_row_texts) ==
    /\ Strip(row.c[1]) # ""
    /\ ~has_target(Strip(row.c[1]), target_row_texts)
    /\ Contains(row.c[1], "GSN VS AD")

gsnad_limit_reached(extracted_rows_count) == extracted_rows_count >= GSNAD_LIMIT

\* extract_from_file: start_row, exact match of column 1 first, then substring
weekly_find_start(sh, date_range_str) ==
    LET Exact(i) == Strip(sh[i].c[1]) = date_range_str
        Sub(i) == Contains(sh[i].c[1], date_range_str)
    IN IF FirstRow(Len(sh), Exact) # 0 THEN FirstRow(Len(sh), Exact)
       ELSE FirstRow(Len(sh), Sub)

\* extract_from_file: end_row, the next row whose column 1 holds a date range
weekly_find_end(sh, start) ==
    LET Is(i) == i > start /\ date_pattern_search(Strip(sh[i].c[1]))
    IN IF FirstRow(Len(sh), Is) = 0 THEN Len(sh) + 1 ELSE FirstRow(Len(sh), Is)

\* extract_from_file: the rows of start..end-1 that are not empty
RECURSIVE weekly_rows(_, _, _)
weekly_rows(sh, i, end) ==
    IF i >= end THEN << >>
    ELSE (IF \E k \in 1..Len(sh[i].c) : Strip(sh[i].c[k]) # "" THEN <<i>> ELSE << >>)
         \o weekly_rows(sh, i + 1, end)

\* the worksheets the extractors are run on
ERSheets ==
    SmallSheets(ERTemplates)
    \cup { pre \o <<h, ERData, ERData, ERData, ERData, t>> :
             pre \in {<< >>, <<ERData>>}, h \in {ERHeader, ERHeaderPlain}, t \in ERTemplates }
    \cup { LongSheet(ERHeaderPlain, ERData, n) : n \in (ER_LIMIT - 2)..(ER_LIMIT - 1 + ExtraRows) }

GSNERSheets ==
    SmallSheets(GSNERTemplates)
    \cup { LongSheet(GSNERHeader, GSNERData, n) :
             n \in (GSNER_LIMIT - 2)..(GSNER_LIMIT - 1 + ExtraRows) }
    \cup { LongSheet(GSNEROnlyA, GSNEROnlyA, GSNER_HEADER_ROWS - 1) \o <<GSNERHeader, GSNERData>> }

GSNADSheets ==
    SmallSheets(GSNADTemplates)
    \cup { LongSheet(GSNADHeader, GSNADData, n) :
             n \in (GSNAD_LIMIT - 2)..(GSNAD_LIMIT - 1 + ExtraRows) }

WeeklySheets == SmallSheets(WeeklyTemplates)

SheetsOf(v) ==
    CASE v = "ER" -> ERSheets
      [] v = "GSNER" -> GSNERSheets
      [] v = "GSNAD" -> GSNADSheets
      [] v = "WEEKLY" -> WeeklySheets

NoResult == [ok |-> "none", data |-> << >>]

\* the extractor returns
Finish(ok, data, why) ==
    /\ xres' = [ok |-> ok, data |-> data]
    /\ body' = data
    /\ stopWhy' = why
    /\ xpc' = "done"

\* the loop goes on to the next row
Continue(b) ==
    /\ body' = b
    /\ cur' = cur + 1
    /\ UNCHANGED <<xres, stopWhy, xpc>>

\* extract_er_data up to the loop: locate the start row
ERLocate ==
    /\ xpc = "start"
    /\ variantX = "ER"
    /\ LET s == er_find_start(sheet, format_date_for_search(DateRangeStr)) IN
       IF s = 0
       THEN /\ Finish("False", << >>, "nomarker")
            /\ UNCHANGED <<startRow, cur>>
       ELSE /\ startRow' = s
            /\ cur' = s
            /\ xpc' = "loop"
            /\ UNCHANGED <<body, xres, stopWhy>>
    /\ UNCHANGED <<sheet, variantX>>
    /\ UNCHANGED <<writeVars, runVars, auxVars>>

\* extract_er_data: one iteration of the loop over the rows
ERStep ==
    /\ xpc = "loop"
    /\ variantX = "ER"
    /\ IF cur > Len(sheet)
       THEN Finish("True", body, "end") /\ UNCHANGED cur
       ELSE IF cur > startRow
               /\ er_another_date_range(sheet[cur], format_date_for_search(DateRangeStr))
       THEN Finish("True", body, "date") /\ UNCHANGED cur
       ELSE IF found_aeaaaa_color(sheet[cur])
       THEN Finish("True", body, "color") /\ UNCHANGED cur
       ELSE IF er_used_range_end(sheet[cur])
       THEN Finish("True", body, "empty") /\ UNCHANGED cur
       ELSE IF er_limit_reached(Len(body) + 1)
       THEN Finish("True", Append(body, cur), "cap") /\ UNCHANGED cur
       ELSE Continue(Append(body, cur))
    /\ UNCHANGED <<sheet, variantX, startRow>>
    /\ UNCHANGED <<writeVars, runVars, auxVars>>

\* extract_gsn_vs_er_data up to the loop
GSNERLocate ==
    /\ xpc = "start"
    /\ variantX = "GSNER"
    /\ startRow' = gsner_find_start(sheet)
    /\ cur' = gsner_find_start(sheet)
    /\ xpc' = "loop"
    /\ UNCHANGED <<sheet, variantX, body, xres, stopWhy>>
    /\ UNCHANGED <<writeVars, runVars, auxVars>>

\* extract_gsn_vs_er_data: one iteration; every row up to the end row is added
GSNERStep ==
    /\ xpc = "loop"
    /\ variantX = "GSNER"
    /\ IF cur > gsner_find_end(sheet, startRow)
       THEN Finish("True", body, "end") /\ UNCHANGED cur
       ELSE IF gsner_limit_reached(Len(body) + 1)
       THEN Finish("True", Append(body, cur), "cap") /\ UNCHANGED cur
       ELSE Continue(Append(body, cur))
    /\ UNCHANGED <<sheet, variantX, startRow>>
    /\ UNCHANGED <<writeVars, runVars, auxVars>>

\* extract_gsn_vs_ad_data up to the loop
GSNADLocate ==
    /\ xpc = "start"
    /\ variantX = "GSNAD"
    /\ LET s == gsnad_find_start(sheet, determine_target_row_text(DateRangeStr)) IN
       IF s = 0
       THEN /\ Finish("False", << >>, "nomarker")
            /\ UNCHANGED <<startRow, cur>>
       ELSE /\ startRow' = s
            /\ cur' = s
            /\ xpc' = "loop"
            /\ UNCHANGED <<body, xres, stopWhy>>
    /\ UNCHANGED <<sheet, variantX>>
    /\ UNCHANGED <<writeVars, runVars, auxVars>>

\* extract_gsn_vs_ad_data: one iteration
GSNADStep ==
    /\ xpc = "loop"
    /\ variantX = "GSNAD"
    /\ LET targets == determine_target_row_text(DateRangeStr) IN
       IF cur > Len(sheet)
       THEN Finish("True", body, "end") /\ UNCHANGED cur
       ELSE IF /\ gsnad_all_columns_empty(sheet[cur])
               /\ ~\E k \in 1..6 : has_target(sheet[cur].c[k], targets)
       THEN Finish("True", body, "empty") /\ UNCHANGED cur
       ELSE IF gsnad_contains_date_range(sheet[cur], targets) /\ cur > startRow
       THEN Finish("True", body, "date") /\ UNCHANGED cur
       ELSE LET b == IF gsnad_all_columns_empty(sheet[cur]) THEN body
                     ELSE Append(body, cur)
            IN IF gsnad_limit_reached(Len(b))
               THEN Finish("True", b, "cap") /\ UNCHANGED cur
               ELSE Continue(b)
    /\ UNCHANGED <<sheet, variantX, startRow>>
    /\ UNCHANGED <<writeVars, runVars, auxVars>>

\* WeeklyReportExtractor.extract_from_file on the matched sheet: a list comes
\* back, empty when the date range is not found
WeeklyExtract ==
    /\ xpc = "start"
    /\ variantX = "WEEKLY"
    /\ LET s == weekly_find_start(sheet, DateRangeStr)
           e == weekly_find_end(sheet, s)
       IN IF s = 0
          THEN /\ Finish("list", << >>, "nomarker")
               /\ UNCHANGED <<startRow, cur>>
          ELSE /\ Finish("list", weekly_rows(sheet, s, e),
                         IF e <= Len(sheet) THEN "date" ELSE "end")
               /\ startRow' = s
               /\ cur' = e
    /\ UNCHANGED <<sheet, variantX>>
    /\ UNCHANGED <<writeVars, runVars, auxVars>>

-----------------------------------------------------------------------------
(* Specifications *)

WriteIdle ==
    /\ disk = FreshWorkbook
    /\ wb = << >>
    /\ app = NoApp
    /\ excelProc = "none"
    /\ wpc = "idle"
    /\ run = [no |-> 0, variant |-> "current",
              date |-> [sd |-> 2, sm |-> 6, sy |-> 2025, ed |-> 6, em |-> 6, ey |-> 2025],
              failed |-> {}]
    /\ stepRet = NoRets
    /\ wresult = "none"
    /\ pipeResult = "none"
    /\ closeCalled = FALSE

RunIdle ==
    /\ terminated = FALSE
    /\ rpc = "idle"
    /\ rret = "none"
    /\ writeTried = FALSE
    /\ raisedAt = {}
    /\ runsDone = 0

ExtIdle ==
    /\ sheet = << >>
    /\ variantX = "none"
    /\ xpc = "idle"
    /\ startRow = 0
    /\ cur = 0
    /\ body = << >>
    /\ xres = NoResult
    /\ stopWhy = "none"

ResIdle ==
    /\ rwb = << >>
    /\ desired = ""
    /\ resolved = ""
    /\ respc = "idle"
    /\ resolves = 0

CoreIdle == WriteIdle /\ RunIdle /\ ExtIdle

CmpIdle ==
    /\ gsn_in = << >>
    /\ other_in = << >>
    /\ comparison_results = << >>
    /\ cmppc = "idle"
    /\ gsner_ws = [Value |-> << >>, Color |-> << >>, Center |-> {}, Merged |-> {},
                   Table |-> 0, Tab |-> "none"]
    /\ gsner_call = [variant |-> "none", fault |-> "none", ret |-> "none"]

NoFlags == [cancelled |-> FALSE, use_auto_date |-> FALSE, user_terminated |-> FALSE]

DlgIdle ==
    /\ dpc = "idle"
    /\ dmode = FALSE
    /\ dialog = "none"
    /\ tab = "date"
    /\ elapsed = 0
    /\ remaining_seconds = 0
    /\ timeout_timer = FALSE
    /\ result_obj = NoFlags
    /\ dret = [date |-> "none", terminated |-> FALSE]
    /\ userActed = FALSE

\* the futures in the order process_data submits them
JobOrder == << "gsn", "er", "ad" >>

DataIdle ==
    /\ ppc = "idle"
    /\ pidx = 1
    /\ jobs = [j \in {"gsn", "er", "ad"} |-> "none"]
    /\ doneOrder = << >>
    /\ data_results = "none"

NoData == [from |-> "none", rows |-> << >>]

ReadIdle ==
    /\ gpc = "idle"
    /\ infile = "ok"
    /\ all_sheets = << >>
    /\ sheet_rows = << >>
    /\ target_sheet = ""
    /\ rdata = NoData
    /\ gui_result = [success |-> "none", data |-> NoData, error_message |-> ""]

\* DateRangeResult() before any date is set
NoRange == [kind |-> "none", start_date |-> 0, end_date |-> 0, date_range_formatted |-> ""]

CalIdle ==
    /\ today = 0
    /\ calmode = FALSE
    /\ calpc = "idle"
    /\ has_ok_button = FALSE
    /\ start_date_picker = 0
    /\ end_date_picker = 0
    /\ ok_enabled = FALSE
    /\ tab_result = NoRange
    /\ handed = NoRange
    /\ prev_auto = NoRange
    /\ formatted = [short |-> "", full |-> ""]

AuxIdle == ResIdle /\ CmpIdle /\ DlgIdle /\ DataIdle /\ ReadIdle /\ CalIdle

\* the write path, run after run on the same workbook file
InitWrite ==
    /\ disk \in InitialWorkbooks
    /\ wb = << >>
    /\ app = NoApp
    /\ excelProc = "none"
    /\ wpc = "idle"
    /\ run = [no |-> 0, variant |-> "current",
              date |-> [sd |-> 2, sm |-> 6, sy |-> 2025, ed |-> 6, em |-> 6, ey |-> 2025],
              failed |-> {}]
    /\ stepRet = NoRets
    /\ wresult = "none"
    /\ pipeResult = "none"
    /\ closeCalled = FALSE
    /\ RunIdle
    /\ ExtIdle
    /\ AuxIdle

NextWrite ==
    \/ StartRun
    \/ OpenWorkbook
    \/ DisplayWorksheetInfo
    \/ UpdateGsner
    \/ UpdateErNologon
    \/ UpdateGsnVsAd
    \/ SaveWorkbook
    \/ AnalyzeReturn
    \/ UpdateExcelFileReturn

SpecWrite == InitWrite /\ [][NextWrite]_vars

\* the pipeline orchestrator with termination requests arriving at any time
InitRun == CoreIdle /\ AuxIdle

NextRun ==
    \/ terminate_process
    \/ RunBegin
    \/ ManageExcel
    \/ Checkpoint1
    \/ GetDateRange
    \/ NoDateRange
    \/ Checkpoint2
    \/ FindRequiredFiles
    \/ Checkpoint3
    \/ ProcessData
    \/ Checkpoint4
    \/ UpdateExcelFile

SpecRun == InitRun /\ [][NextRun]_vars

\* one extraction of DateRangeStr from a worksheet
InitExtract ==
    /\ WriteIdle
    /\ RunIdle
    /\ variantX \in ExtractorVariants
    /\ sheet \in SheetsOf(variantX)
    /\ xpc = "start"
    /\ startRow = 0
    /\ cur = 0
    /\ body = << >>
    /\ xres = NoResult
    /\ stopWhy = "none"
    /\ AuxIdle

NextExtract ==
    \/ ERLocate
    \/ ERStep
    \/ GSNERLocate
    \/ GSNERStep
    \/ GSNADLocate
    \/ GSNADStep
    \/ WeeklyExtract

SpecExtract == InitExtract /\ [][NextExtract]_vars

-----------------------------------------------------------------------------
(* The worksheet name resolver on its own: _update_gsner_worksheet asks    *)
(* for a name and creates the sheet under the name it was given, again and *)
(* again on the same workbook.                                             *)

\* the names the resolver tries, in its order: 0 the name itself, 1 the
\* "(copy)" name, n >= 2 the "(copy n)" name
copy_name(base, n) ==
    IF n = 0 THEN base
    ELSE IF n = 1 THEN base \o " (copy)"
    ELSE base \o " (copy " \o NumStr(n) \o ")"

\* a workbook in which the name and its first k copies are taken (k = -1:
\* the name is free); Excel holds no sheet name longer than 31 characters
FilledWorkbook(base, k) ==
    LET names == {m \in {copy_name(base, n) : n \in 0..k} : Len(m) <= 31} IN
    [m \in names |-> << Row("GSN", 0) >>] @@ FreshWorkbook

\* the find-a-name step of _update_gsner_worksheet
FindAvailableName ==
    /\ respc = "call"
    /\ resolves < MaxResolves
    /\ \E c \in 0..MaxClock :
          resolved' = find_available_worksheet_name(rwb, desired, c)
    /\ respc' = "named"
    /\ resolves' = resolves + 1
    /\ UNCHANGED <<rwb, desired>>
    /\ UNCHANGED resRest

\* the create step that follows it
CreateResolved ==
    /\ respc = "named"
    /\ \E c \in 0..MaxClock :
          rwb' = create_new_worksheet(rwb, resolved, FALSE, c).wb
    /\ respc' = "call"
    /\ UNCHANGED <<desired, resolved, resolves>>
    /\ UNCHANGED resRest

InitResolve ==
    /\ CoreIdle
    /\ CalIdle
    /\ CmpIdle
    /\ DlgIdle
    /\ DataIdle
    /\ ReadIdle
    /\ desired \in {"ER 2025", "GSN VS ER", "GSN VS ER 2-6 Jun 2025",
                     "GSN VS ER 30 Jun - 4 Jul 2025", "GSN VS AD 2025"}
    /\ rwb \in {FilledWorkbook(desired, k) : k \in {-1, 0, 1, 2, 3, 98, 99, 100}}
    /\ resolved = ""
    /\ respc = "call"
    /\ resolves = 0

NextResolve ==
    \/ FindAvailableName
    \/ CreateResolved

SpecResolve == InitResolve /\ [][NextResolve]_vars

-----------------------------------------------------------------------------
(* The set comparison: compare_data_sets (GSN against ER) and the          *)
(* comparison _update_gsnvsad_worksheet makes itself (GSN against AD).     *)

\* str < str, by the code points of the characters host names are made of
RECURSIVE str_lt(_, _)
str_lt(s, t) ==
    LET ord(ch) ==
            IF ch = " " THEN 32
            ELSE IF IsDigit(ch) THEN 47 + (CHOOSE i \in 1..10 : Digits[i] = ch)
            ELSE IF \E i \in 1..26 : UpperLetters[i] = ch
                 THEN 64 + (CHOOSE i \in 1..26 : UpperLetters[i] = ch)
            ELSE IF \E i \in 1..26 : LowerLetters[i] = ch
                 THEN 96 + (CHOOSE i \in 1..26 : LowerLetters[i] = ch)
            ELSE 95
    IN IF Len(t) = 0 THEN FALSE
       ELSE IF Len(s) = 0 THEN TRUE
       ELSE IF Ch(s, 1) = Ch(t, 1)
            THEN str_lt(SubSeq(s, 2, Len(s)), SubSeq(t, 2, Len(t)))
       ELSE ord(Ch(s, 1)) < ord(Ch(t, 1))

\* list.sort()
RECURSIVE list_sort(_)
list_sort(l) ==
    IF Len(l) = 0 THEN l
    ELSE LET rest == list_sort(Tail(l))
             k == Cardinality({i \in 1..Len(rest) : str_lt(rest[i], Head(l))})
         IN SubSeq(rest, 1, k) \o << Head(l) >> \o SubSeq(rest, k + 1, Len(rest))

\* [item for item in items if item not in others]
not_in(items, others) ==
    LET absent(item) == \A i \in 1..Len(others) : others[i] # item
    IN SelectSeq(items, absent)

\* compare_data_sets with both lists left unfiltered
compare_unfiltered(gsn_entries, er_entries) ==
    [MissingInER |-> gsn_entries, MissingInGSN |-> er_entries]

\* compare_data_sets with the second difference sorted
compare_half_sorted(gsn_entries, er_entries) ==
    [MissingInER  |-> not_in(gsn_entries, er_entries),
     MissingInGSN |-> list_sort(not_in(er_entries, gsn_entries))]

\* comparison.compare_data_sets
compare_data_sets(gsn_entries, er_entries) ==
    [MissingInER  |-> not_in(gsn_entries, er_entries),
     MissingInGSN |-> not_in(er_entries, gsn_entries)]

\* the comparison inside _update_gsnvsad_worksheet
gsnvsad_compare(gsn_entries, ad_entries) ==
    LET truthy(item) == item # ""
        normalize(l) == LET kept == SelectSeq(l, truthy)
                        IN [i \in 1..Len(kept) |-> Strip(kept[i])]
        gsn_normalized == normalize(gsn_entries)
        ad_normalized == normalize(ad_entries)
    IN [missing_in_ad  |-> list_sort(not_in(gsn_normalized, ad_normalized)),
        missing_in_gsn |-> list_sort(not_in(ad_normalized, gsn_normalized))]

\* the lists handed to a comparison; an entry is a host name, a host name
\* with a trailing blank, a blank cell or an empty one
EntryLists ==
    UNION {[1..n -> {"SGPC002", "SGPC001", "SGPC001 ", " ", ""}] : n \in 0..MaxEntries}

\* process_data: comparison_results = compare_data_sets(...)
CompareDataSets ==
    /\ cmppc = "start"
    /\ comparison_results' = compare_data_sets(gsn_in, other_in)
    /\ cmppc' = "compared"
    /\ UNCHANGED <<gsn_in, other_in, gsner_ws, gsner_call>>
    /\ UNCHANGED cmpRest

\* _update_gsnvsad_worksheet: the GSN/AD differences
CompareGsnAd ==
    /\ cmppc = "start"
    /\ comparison_results' = gsnvsad_compare(gsn_in, other_in)
    /\ cmppc' = "compared_ad"
    /\ UNCHANGED <<gsn_in, other_in, gsner_ws, gsner_call>>
    /\ UNCHANGED cmpRest

\* ExcelUpdater._add_comparison_section with the branch for an empty list
\* left out
add_section_without_nil(ws, data, header_text, remarks_header, start_col, start_row) ==
    LET sorted_data == list_sort(data)
        heads == (<<start_row, start_col>> :> header_text)
                 @@ (<<start_row, start_col + 1>> :> remarks_header)
        rows == [p \in {<<start_row + i, start_col>> : i \in 1..Len(sorted_data)}
                   |-> sorted_data[p[1] - start_row]]
    IN [ws |-> [ws EXCEPT !.Value = rows @@ heads @@ ws.Value],
        next_row |-> start_row + 1 + Len(sorted_data)]

\* ExcelUpdater._add_comparison_section: the two headers, then either the
\* sorted entries one per row or, for an empty list, one merged and centered
\* "NIL" row; returns the sheet and the row after the section
add_comparison_section(ws, data, header_text, remarks_header, start_col, start_row) ==
    LET sorted_data == list_sort(data)
        heads == (<<start_row, start_col>> :> header_text)
                 @@ (<<start_row, start_col + 1>> :> remarks_header)
        rows == [p \in {<<start_row + i, start_col>> : i \in 1..Len(sorted_data)}
                   |-> sorted_data[p[1] - start_row]]
    IN IF sorted_data = << >>
       THEN [ws |-> [ws EXCEPT
                       !.Merged = @ \cup {<<start_row + 1, start_col, start_col + 1>>},
                       !.Value = (<<start_row + 1, start_col>> :> "NIL") @@ heads @@ @,
                       !.Center = @ \cup {<<start_row + 1, start_col>>}],
             next_row |-> start_row + 2]
       ELSE [ws |-> [ws EXCEPT !.Value = rows @@ heads @@ @],
             next_row |-> start_row + 1 + Len(sorted_data)]

\* ExcelUpdater._add_count_summary: a label and a value per row (a count is
\* kept as its decimal numeral)
add_count_summary(ws, labels, values, start_col, start_row) ==
    LET put == [p \in {<<start_row + i - 1, c>> : i \in 1..Len(labels),
                                                 c \in {start_col, start_col + 1}}
                  |-> IF p[2] = start_col THEN labels[p[1] - start_row + 1]
                      ELSE NumStr(values[p[1] - start_row + 1])]
    IN [ws EXCEPT !.Value = put @@ @]

\* ExcelUpdater._update_gsner_worksheet from the created worksheet on: the
\* two sorted columns, the table, the highlighting, the tab color, the two
\* difference sections and the count summary.  fault names the property
\* whose setting raises: the current version catches it and goes on, the
\* legacy version has no handler and the exception leaves the method
write_gsner_sheet(ws, variant, gsn_entries, er_entries, missing_in_er, missing_in_gsn, fault) ==
    LET sorted_gsn_values == list_sort(gsn_entries)
        sorted_er_values == list_sort(er_entries)
        member(v, l) == \E i \in 1..Len(l) : l[i] = v
        columns == [p \in {<<i + 1, 1>> : i \in 1..Len(sorted_gsn_values)}
                          \cup {<<j + 1, 2>> : j \in 1..Len(sorted_er_values)}
                      |-> IF p[2] = 1 THEN sorted_gsn_values[p[1] - 1]
                          ELSE sorted_er_values[p[1] - 1]]
        filled == [ws EXCEPT
                     !.Value = columns @@ (<<1, 1>> :> "GSN") @@ (<<1, 2>> :> "ER") @@ @,
                     !.Center = @ \cup {<<1, 1>>, <<1, 2>>}]
        max_row == (IF Len(sorted_gsn_values) > Len(sorted_er_values)
                    THEN Len(sorted_gsn_values) ELSE Len(sorted_er_values)) + 1
        tabled == IF fault = "table" THEN filled ELSE [filled EXCEPT !.Table = max_row]
        highlighted ==
            [tabled EXCEPT !.Color =
                [p \in DOMAIN columns |->
                    IF member(columns[p], IF p[2] = 1 THEN sorted_er_values
                                          ELSE sorted_gsn_values)
                    THEN "pink" ELSE "white"] @@ @]
        colored == IF fault = "tab" THEN highlighted ELSE [highlighted EXCEPT !.Tab = "gold"]
        first == add_comparison_section(colored, missing_in_er,
                                        "In GSN but not in ER", "Remarks", 4, 1)
        second == add_comparison_section(first.ws, missing_in_gsn,
                                         "In ER but not in GSN", "Remarks", 4,
                                         first.next_row + 1)
        summed == add_count_summary(second.ws, <<"ER", "GSN">>,
                                    <<Len(er_entries), Len(gsn_entries)>>, 4,
                                    second.next_row + 1)
    IN IF variant = "legacy" /\ fault = "table" THEN [ws |-> filled, ret |-> "raised"]
       ELSE IF variant = "legacy" /\ fault = "tab" THEN [ws |-> highlighted, ret |-> "raised"]
       ELSE [ws |-> summed, ret |-> "True"]

\* analyze_excel_file: _update_gsner_worksheet(gsn_entries, er_entries,
\* missing_in_er, missing_in_gsn, date_range) on the lists of the comparison
UpdateGsnerSheet ==
    /\ cmppc = "compared"
    /\ \E variant \in Variants, fault \in {"none", "table", "tab"} :
        LET u == write_gsner_sheet(gsner_ws, variant, gsn_in, other_in,
                                   comparison_results.MissingInER,
                                   comparison_results.MissingInGSN, fault)
        IN /\ gsner_ws' = u.ws
           /\ gsner_call' = [variant |-> variant, fault |-> fault, ret |-> u.ret]
    /\ cmppc' = "written"
    /\ UNCHANGED <<gsn_in, other_in, comparison_results>>
    /\ UNCHANGED cmpRest

InitCompare ==
    /\ CoreIdle
    /\ CalIdle
    /\ ResIdle
    /\ DlgIdle
    /\ DataIdle
    /\ ReadIdle
    /\ gsn_in \in EntryLists
    /\ other_in \in EntryLists
    /\ comparison_results = << >>
    /\ cmppc = "start"
    /\ gsner_ws = [Value |-> << >>, Color |-> << >>, Center |-> {}, Merged |-> {},
                   Table |-> 0, Tab |-> "none"]
    /\ gsner_call = [variant |-> "none", fault |-> "none", ret |-> "none"]

NextCompare ==
    \/ CompareDataSets
    \/ CompareGsnAd
    \/ UpdateGsnerSheet

SpecCompare == InitCompare /\ [][NextCompare]_vars

-----------------------------------------------------------------------------
(* The date selection step: get_date_range and the dialog it shows.  Time  *)
(* is counted in seconds; the 30 second timeout is TimeoutSeconds.         *)

DialogOpen == dpc = "dialog" /\ dialog = "open"

\* show_tabbed_date_range_selection -> EnhancedSharePointAutomationApp.__init__:
\* the timers are started in automatic mode only
ShowDialog ==
    /\ dpc = "start"
    /\ dpc' = "dialog"
    /\ dialog' = "open"
    /\ remaining_seconds' = TimeoutSeconds
    /\ timeout_timer' = ~dmode
    /\ UNCHANGED <<dmode, tab, elapsed, result_obj, dret, userActed>>
    /\ UNCHANGED dlgRest

\* One second passes with the dialog open; in automatic mode the countdown
\* timer calls update_countdown.  A running single-shot timer fires at its
\* deadline, so time does not pass beyond it.
SecondPasses ==
    /\ DialogOpen
    /\ elapsed < MaxWait
    /\ timeout_timer => elapsed < TimeoutSeconds
    /\ elapsed' = elapsed + 1
    /\ remaining_seconds' = IF ~dmode /\ remaining_seconds > 0
                             THEN remaining_seconds - 1 ELSE remaining_seconds
    /\ UNCHANGED <<dpc, dmode, dialog, tab, timeout_timer, result_obj, dret, userActed>>
    /\ UNCHANGED dlgRest

\* handle_timeout without the reject() that closes the dialog
handle_timeout_open ==
    /\ DialogOpen
    /\ timeout_timer
    /\ elapsed = TimeoutSeconds
    /\ timeout_timer' = FALSE
    /\ result_obj' = [cancelled |-> TRUE, use_auto_date |-> TRUE, user_terminated |-> FALSE]
    /\ UNCHANGED <<dpc, dmode, dialog, tab, elapsed, remaining_seconds, dret, userActed>>
    /\ UNCHANGED dlgRest

\* EnhancedSharePointAutomationApp.handle_timeout
handle_timeout ==
    /\ DialogOpen
    /\ timeout_timer
    /\ elapsed = TimeoutSeconds
    /\ ~dmode
    /\ timeout_timer' = FALSE
    /\ result_obj' = [cancelled |-> TRUE, use_auto_date |-> TRUE, user_terminated |-> FALSE]
    /\ dialog' = "rejected"
    /\ UNCHANGED <<dpc, dmode, tab, elapsed, remaining_seconds, dret, userActed>>
    /\ UNCHANGED dlgRest

\* the user looks at the other tab: the timers keep running
SwitchTab ==
    /\ DialogOpen
    /\ tab' = IF tab = "date" THEN "settings" ELSE "date"
    /\ userActed' = TRUE
    /\ UNCHANGED <<dpc, dmode, dialog, elapsed, remaining_seconds, timeout_timer,
                   result_obj, dret>>
    /\ UNCHANGED dlgRest

\* the OK button: accept() with the dates of the date range tab
ClickOk ==
    /\ DialogOpen
    /\ dialog' = "accepted"
    /\ userActed' = TRUE
    /\ UNCHANGED <<dpc, dmode, tab, elapsed, remaining_seconds, timeout_timer,
                   result_obj, dret>>
    /\ UNCHANGED dlgRest

\* handle_use_auto_date: the button exists in automatic mode only
handle_use_auto_date ==
    /\ DialogOpen
    /\ ~dmode
    /\ timeout_timer' = FALSE
    /\ result_obj' = [cancelled |-> TRUE, use_auto_date |-> TRUE, user_terminated |-> FALSE]
    /\ dialog' = "rejected"
    /\ userActed' = TRUE
    /\ UNCHANGED <<dpc, dmode, tab, elapsed, remaining_seconds, dret>>
    /\ UNCHANGED dlgRest

\* handle_terminate_process: the Exit button or the window's close button
handle_terminate_process ==
    /\ DialogOpen
    /\ timeout_timer' = FALSE
    /\ result_obj' = [result_obj EXCEPT !.cancelled = TRUE, !.user_terminated = TRUE]
    /\ dialog' = "rejected"
    /\ userActed' = TRUE
    /\ UNCHANGED <<dpc, dmode, tab, elapsed, remaining_seconds, dret>>
    /\ UNCHANGED dlgRest

\* get_date_range after the dialog returned: "Handle the different outcomes".
\* get_automatic_date_range works from the same date check_run_date accepted.
HandleOutcome ==
    /\ dpc = "dialog"
    /\ dialog \in {"accepted", "rejected"}
    /\ dpc' = "returned"
    /\ dret' =
         IF result_obj.user_terminated
         THEN [date |-> "none", terminated |-> TRUE]
         ELSE IF result_obj.use_auto_date \/ result_obj.cancelled
         THEN [date |-> "auto", terminated |-> FALSE]
         ELSE [date |-> "selected", terminated |-> FALSE]
    /\ UNCHANGED <<dmode, dialog, tab, elapsed, remaining_seconds, timeout_timer,
                   result_obj, userActed>>
    /\ UNCHANGED dlgRest

InitDialog ==
    /\ CoreIdle
    /\ CalIdle
    /\ ResIdle
    /\ CmpIdle
    /\ DataIdle
    /\ ReadIdle
    /\ dpc = "start"
    /\ dmode \in BOOLEAN
    /\ dialog = "none"
    /\ tab = "date"
    /\ elapsed = 0
    /\ remaining_seconds = 0
    /\ timeout_timer = FALSE
    /\ result_obj = NoFlags
    /\ dret = [date |-> "none", terminated |-> FALSE]
    /\ userActed = FALSE

NextDialog ==
    \/ ShowDialog
    \/ SecondPasses
    \/ handle_timeout
    \/ SwitchTab
    \/ ClickOk
    \/ handle_use_auto_date
    \/ handle_terminate_process
    \/ HandleOutcome

SpecDialog == InitDialog /\ [][NextDialog]_vars

-----------------------------------------------------------------------------
(* Data gathering: process_data submits the GSN, ER and AD lookups to a    *)
(* thread pool, waits for their results, compares, and the pipeline then   *)
(* writes.  The jobs run on their own threads, interleaved with the        *)
(* submitting thread.                                                      *)

\* executor.submit(...): the job starts running on a pool thread
Submit ==
    /\ ppc = "submit"
    /\ jobs' = [jobs EXCEPT ![JobOrder[pidx]] = "running"]
    /\ IF pidx < 3
       THEN pidx' = pidx + 1 /\ UNCHANGED ppc
       ELSE pidx' = 1 /\ ppc' = "result"
    /\ UNCHANGED <<doneOrder, data_results>>
    /\ UNCHANGED dataRest

\* process_gsn_data / process_er_data / process_ad_data returns or raises
JobEnds ==
    /\ \E j \in {"gsn", "er", "ad"}, outcome \in {"done", "raised"} :
          /\ jobs[j] = "running"
          /\ jobs' = [jobs EXCEPT ![j] = outcome]
          /\ doneOrder' = Append(doneOrder, j)
    /\ UNCHANGED <<ppc, pidx, data_results>>
    /\ UNCHANGED dataRest

\* future.result() that answers although the job is still running
Result_unjoined ==
    /\ ppc = "result"
    /\ IF jobs[JobOrder[pidx]] = "raised"
       THEN ppc' = "raising" /\ UNCHANGED pidx
       ELSE IF pidx < 3
       THEN pidx' = pidx + 1 /\ UNCHANGED ppc
       ELSE pidx' = 1 /\ ppc' = "shutdown"
    /\ UNCHANGED <<jobs, doneOrder, data_results>>
    /\ UNCHANGED dataRest

\* future.result(): blocks until the job has ended, re-raises its exception
Result ==
    /\ ppc = "result"
    /\ jobs[JobOrder[pidx]] \in {"done", "raised"}
    /\ IF jobs[JobOrder[pidx]] = "raised"
       THEN ppc' = "raising" /\ UNCHANGED pidx
       ELSE IF pidx < 3
       THEN pidx' = pidx + 1 /\ UNCHANGED ppc
       ELSE pidx' = 1 /\ ppc' = "shutdown"
    /\ UNCHANGED <<jobs, doneOrder, data_results>>
    /\ UNCHANGED dataRest

\* leaving the with block: ThreadPoolExecutor.__exit__ waits for every job;
\* after an exception process_data logs it and returns None
ExecutorExit ==
    /\ ppc \in {"shutdown", "raising"}
    /\ \A j \in {"gsn", "er", "ad"} : jobs[j] # "running"
    /\ IF ppc = "shutdown"
       THEN ppc' = "compare" /\ UNCHANGED data_results
       ELSE ppc' = "returned" /\ data_results' = "None"
    /\ UNCHANGED <<pidx, jobs, doneOrder>>
    /\ UNCHANGED dataRest

\* comparison_results = compare_data_sets(...); return the dictionary
CompareAndReturn ==
    /\ ppc = "compare"
    /\ ppc' = "returned"
    /\ data_results' = "dict"
    /\ UNCHANGED <<pidx, jobs, doneOrder>>
    /\ UNCHANGED dataRest

\* run_sharepoint_automation after process_data: "if not data_results:
\* return False", else on to update_excel_file
AfterProcessData ==
    /\ ppc = "returned"
    /\ ppc' = IF data_results = "dict" THEN "write" ELSE "stopped"
    /\ UNCHANGED <<pidx, jobs, doneOrder, data_results>>
    /\ UNCHANGED dataRest

InitData ==
    /\ CoreIdle
    /\ CalIdle
    /\ ResIdle
    /\ CmpIdle
    /\ DlgIdle
    /\ ReadIdle
    /\ ppc = "submit"
    /\ pidx = 1
    /\ jobs = [j \in {"gsn", "er", "ad"} |-> "none"]
    /\ doneOrder = << >>
    /\ data_results = "none"

NextData ==
    \/ Submit
    \/ JobEnds
    \/ Result
    \/ ExecutorExit
    \/ CompareAndReturn
    \/ AfterProcessData

SpecData == InitData /\ [][NextData]_vars

-----------------------------------------------------------------------------
(* The weekly report read path: extract_data_for_date_range_gui ->         *)
(* create_copy_and_extract -> extract_from_file, for DateRangeStr (month   *)
(* "June", year "2025").                                                   *)

\* the three tests extract_from_file tries on a sheet name
sheet_matches(sheet_name, month_name, year, tier) ==
    LET month_abbr == SubSeq(month_name, 1, 3) IN
    CASE tier = 1 -> /\ Contains(sheet_name, "MFA, AD EDS " \o month_name)
                     /\ Contains(sheet_name, year)
      [] tier = 2 -> /\ Contains(sheet_name, "MFA, AD EDS")
                     /\ Contains(sheet_name, month_abbr)
                     /\ Contains(sheet_name, year)
      [] tier = 3 -> \/ Contains(sheet_name, month_name) /\ Contains(sheet_name, year)
                     \/ Contains(sheet_name, month_abbr) /\ Contains(sheet_name, year)

\* the sheet search that settles for the first sheet when no tier matches
find_target_sheet_first(names, month_name, year) ==
    LET T1(i) == sheet_matches(names[i], month_name, year, 1)
        T2(i) == sheet_matches(names[i], month_name, year, 2)
        T3(i) == sheet_matches(names[i], month_name, year, 3)
    IN IF FirstRow(Len(names), T1) # 0 THEN names[FirstRow(Len(names), T1)]
       ELSE IF FirstRow(Len(names), T2) # 0 THEN names[FirstRow(Len(names), T2)]
       ELSE IF FirstRow(Len(names), T3) # 0 THEN names[FirstRow(Len(names), T3)]
       ELSE names[1]

\* extract_from_file: target_sheet, the first sheet of the first tier that
\* matches any; "" for None
find_target_sheet(names, month_name, year) ==
    LET T1(i) == sheet_matches(names[i], month_name, year, 1)
        T2(i) == sheet_matches(names[i], month_name, year, 2)
        T3(i) == sheet_matches(names[i], month_name, year, 3)
    IN IF FirstRow(Len(names), T1) # 0 THEN names[FirstRow(Len(names), T1)]
       ELSE IF FirstRow(Len(names), T2) # 0 THEN names[FirstRow(Len(names), T2)]
       ELSE IF FirstRow(Len(names), T3) # 0 THEN names[FirstRow(Len(names), T3)]
       ELSE ""

\* create_basic_data: the hard-coded rows (their first column)
create_basic_data(date_range_str) ==
    [from |-> "hardcoded",
     rows |-> << date_range_str, "Updates for AD/EDS Clean up & MFA",
                 "Applied MFA Method", "ernecheo", "jinglang", "bajum" >>]

\* create_copy_and_extract up to the copy: shutil.copy2 raises for a file
\* that is absent or cannot be read, and the handler answers with
\* create_basic_data
CreateCopy ==
    /\ gpc = "start"
    /\ IF infile \in {"absent", "locked"}
       THEN /\ rdata' = create_basic_data(DateRangeStr)
            /\ gpc' = "extracted"
       ELSE /\ gpc' = "copied"
            /\ UNCHANGED rdata
    /\ UNCHANGED <<infile, all_sheets, sheet_rows, target_sheet, gui_result>>
    /\ UNCHANGED readRest

\* extract_from_file on the copy; any exception (pd.ExcelFile on a file that
\* is no workbook) is logged and [] returned
ExtractFromFile ==
    /\ gpc = "copied"
    /\ gpc' = "extracted"
    /\ IF infile = "corrupt"
       THEN /\ rdata' = [from |-> "workbook", rows |-> << >>]
            /\ UNCHANGED target_sheet
       ELSE LET found == find_target_sheet(all_sheets, "June", "2025") IN
            /\ target_sheet' = found
            /\ IF found = ""
               THEN rdata' = [from |-> "workbook", rows |-> << >>]
               ELSE LET sh == sheet_rows[found]
                        s == weekly_find_start(sh, DateRangeStr)
                        idx == IF s = 0 THEN << >>
                               ELSE weekly_rows(sh, s, weekly_find_end(sh, s))
                    IN rdata' = [from |-> "workbook",
                                 rows |-> [k \in 1..Len(idx) |-> sh[idx[k]].c[1]]]
    /\ UNCHANGED <<infile, all_sheets, sheet_rows, gui_result>>
    /\ UNCHANGED readRest

\* extract_data_for_date_range_gui: the answer built from the data
GuiReturn ==
    /\ gpc = "extracted"
    /\ gpc' = "returned"
    /\ gui_result' =
         IF rdata.rows = << >>
         THEN [success |-> "False", data |-> NoData,
               error_message |-> "No data found for date range '" \o DateRangeStr \o "'"]
         ELSE [success |-> "True", data |-> rdata, error_message |-> ""]
    /\ UNCHANGED <<infile, all_sheets, sheet_rows, target_sheet, rdata>>
    /\ UNCHANGED readRest

\* the sheet names a weekly report workbook may hold: one per tier and three
\* that match no tier
ReadSheetNames ==
    { "MFA, AD EDS June 2025", "MFA, AD EDS Jun 2025", "Summary June 2025",
      "MFA, AD EDS May 2025", "MFA, AD EDS June 2024", "Sheet1" }

InitRead ==
    /\ CoreIdle
    /\ CalIdle
    /\ ResIdle
    /\ CmpIdle
    /\ DlgIdle
    /\ DataIdle
    /\ gpc = "start"
    /\ infile \in {"absent", "locked", "corrupt", "ok"}
    /\ all_sheets \in {q \in UNION {[1..n -> ReadSheetNames] : n \in 1..MaxSheets} :
                          \A i, j \in 1..Len(q) : i # j => q[i] # q[j]}
    /\ sheet_rows \in [{all_sheets[i] : i \in 1..Len(all_sheets)} ->
                          { << XRow(<<DateRangeStr, "", "", "", "", "">>, NoFill),
                               XRow(<<"user1", "disabled", "", "", "", "">>, NoFill) >>,
                            << XRow(<<OtherRangeStr, "", "", "", "", "">>, NoFill),
                               XRow(<<"user2", "", "", "", "", "">>, NoFill) >> }]
    /\ target_sheet = ""
    /\ rdata = NoData
    /\ gui_result = [success |-> "none", data |-> NoData, error_message |-> ""]

NextRead ==
    \/ CreateCopy
    \/ ExtractFromFile
    \/ GuiReturn

SpecRead == InitRead /\ [][NextRead]_vars

-----------------------------------------------------------------------------
(* Run days and date ranges.  A date is a day number: day 1 is Wednesday    *)
(* 1 January 2025; the years covered (2024 to 2026, 2024 only for its last  *)
(* days) are taken with 365 days each from day 1 on.  app_controller pins   *)
(* current_date to a test date to be replaced by datetime.now().date(); the *)
(* model lets the date run from day 1 to day MaxDay.  The date range tab    *)
(* exists in two versions: tabs/date_range_tab.py owns the OK button and    *)
(* disables it, the DateRangeTab of tabbed_app.py has none.  The pickers    *)
(* offer the dates from today to today + MaxPick.                           *)

MaxDay == 380
MaxPick == 1

\* datetime.date: year, month and day of a day number
date_of(n) ==
    LET MonthDays == <<31, 28, 31, 30, 31, 30, 31, 31, 30, 31, 30, 31>>
        before(m) == IF m = 0 THEN 0
                     ELSE LET sum[k \in 0..12] == IF k = 0 THEN 0 ELSE sum[k - 1] + MonthDays[k]
                          IN sum[m]
        doy == ((n - 1) % 365) + 1
        month == CHOOSE m \in 1..12 : before(m - 1) < doy /\ doy <= before(m)
    IN IF n < 1 THEN [year |-> 2024, month |-> 12, day |-> 31 + n, last |-> 31]
       ELSE [year |-> 2025 + ((n - 1) \div 365), month |-> month,
             day |-> doy - before(month - 1), last |-> MonthDays[month]]

\* date.weekday(): Monday is 0
weekday(n) == (n + 1) % 7

\* app_controller.is_weekend
is_weekend(date) == weekday(date) >= 5

\* app_controller.is_friday
is_friday(date) == weekday(date) = 4

\* app_controller.is_last_day_of_month
is_last_day_of_month(date) == date_of(date).day = date_of(date).last

\* app_controller.get_monday_of_same_week
get_monday_of_same_week(date) == date - weekday(date)

\* app_controller.check_run_date
check_run_date(current_date) ==
    IF is_weekend(current_date) THEN FALSE
    ELSE is_friday(current_date) \/ is_last_day_of_month(current_date)

\* the DateRangeResult of a start and an end date; the string is built as
\* "{start.day}-{end.day} {Month} {year}" or
\* "{start.day} {Month} - {end.day} {Month} {end.year}"
date_range_result(kind, start_date, end_date) ==
    LET s == date_of(start_date)
        e == date_of(end_date)
    IN [kind |-> kind, start_date |-> start_date, end_date |-> end_date,
        date_range_formatted |->
            IF s.month = e.month /\ s.year = e.year
            THEN NumStr(s.day) \o "-" \o NumStr(e.day) \o " " \o MonthFull[s.month]
                 \o " " \o NumStr(s.year)
            ELSE NumStr(s.day) \o " " \o MonthFull[s.month] \o " - " \o NumStr(e.day)
                 \o " " \o MonthFull[e.month] \o " " \o NumStr(e.year)]

\* get_automatic_date_range with the start left on the Monday
auto_range_unclipped(current_date) ==
    IF is_last_day_of_month(current_date) \/ is_friday(current_date)
    THEN date_range_result("auto", get_monday_of_same_week(current_date), current_date)
    ELSE NoRange

\* get_automatic_date_range with the start always on the first of the month
auto_range_from_month_start(current_date) ==
    IF is_last_day_of_month(current_date) \/ is_friday(current_date)
    THEN date_range_result("auto", current_date - date_of(current_date).day + 1, current_date)
    ELSE NoRange

\* app_controller.get_automatic_date_range: on the last day of a month and
\* on a Friday (two branches with the same body) the range ends today and
\* starts on the Monday of the week, or on the first of the month when that
\* Monday lies in another month; on any other day the answer is None
get_automatic_date_range(current_date) ==
    LET end_date == current_date
        monday == get_monday_of_same_week(current_date)
        start_date == IF date_of(monday).month # date_of(end_date).month
                      THEN end_date - date_of(end_date).day + 1
                      ELSE monday
    IN IF is_last_day_of_month(current_date) \/ is_friday(current_date)
       THEN date_range_result("auto", start_date, end_date)
       ELSE NoRange

\* DateRangeTab.update_preview storing whatever the pickers show
update_preview_unchecked(start_date, end_date) ==
    [result_obj |-> date_range_result("selected", start_date, end_date),
     ok_enabled |-> TRUE]

\* DateRangeTab.update_preview: an end date before the start date is
\* answered with a status text (and a disabled OK button where the tab has
\* one) and leaves result_obj as it was; otherwise result_obj takes the dates
update_preview(start_date, end_date) ==
    IF end_date < start_date
    THEN [result_obj |-> tab_result, ok_enabled |-> ~has_ok_button]
    ELSE [result_obj |-> date_range_result("selected", start_date, end_date),
          ok_enabled |-> TRUE]

\* run_sharepoint_automation: check_run_date unless manual_mode
DateChecks ==
    /\ calpc = "start"
    /\ calpc' = IF calmode \/ check_run_date(today) THEN "checked" ELSE "norun"
    /\ UNCHANGED <<today, calmode, has_ok_button, start_date_picker, end_date_picker,
                   ok_enabled, tab_result, handed, prev_auto, formatted>>
    /\ UNCHANGED calRest

\* DateRangeTab.__init__: the pickers show today and tomorrow, then the
\* initial update_preview
OpenDateTab ==
    /\ calpc = "checked"
    /\ start_date_picker' = today
    /\ end_date_picker' = today + 1
    /\ tab_result' = update_preview(today, today + 1).result_obj
    /\ ok_enabled' = update_preview(today, today + 1).ok_enabled
    /\ calpc' = "dialog"
    /\ UNCHANGED <<today, calmode, has_ok_button, handed, prev_auto, formatted>>
    /\ UNCHANGED calRest

\* the user changes one picker: dateChanged -> update_preview
PickDate ==
    /\ calpc = "dialog"
    /\ \E start \in BOOLEAN, d \in today..(today + MaxPick) :
        /\ d # (IF start THEN start_date_picker ELSE end_date_picker)
        /\ start_date_picker' = IF start THEN d ELSE start_date_picker
        /\ end_date_picker' = IF start THEN end_date_picker ELSE d
        /\ tab_result' = update_preview(start_date_picker', end_date_picker').result_obj
        /\ ok_enabled' = update_preview(start_date_picker', end_date_picker').ok_enabled
    /\ UNCHANGED <<today, calmode, calpc, has_ok_button, handed, prev_auto, formatted>>
    /\ UNCHANGED calRest

\* the OK button: accept(); get_date_range returns the tab's result_obj
AcceptDates ==
    /\ calpc = "dialog"
    /\ ok_enabled
    /\ handed' = tab_result
    /\ calpc' = "handed"
    /\ UNCHANGED <<today, calmode, has_ok_button, start_date_picker, end_date_picker,
                   ok_enabled, tab_result, prev_auto, formatted>>
    /\ UNCHANGED calRest

\* automatic mode, "Use Auto Date" or the timeout: get_date_range replaces
\* the dialog's result by get_automatic_date_range() and returns None when
\* that is None
UseAutoDate ==
    /\ calpc = "dialog"
    /\ ~calmode
    /\ LET date_range == get_automatic_date_range(today)
       IN /\ handed' = date_range
          /\ calpc' = IF date_range.kind = "none" THEN "failed" ELSE "handed"
    /\ UNCHANGED <<today, calmode, has_ok_button, start_date_picker, end_date_picker,
                   ok_enabled, tab_result, prev_auto, formatted>>
    /\ UNCHANGED calRest

\* ExcelUpdater: format_date_range(date_range) for the GSN VS ER sheet name
\* and the ER block, format_date_range(date_range, True) for the GSN VS AD
\* block, on the date range the pipeline was handed
FormatDateRange ==
    /\ calpc = "handed"
    /\ LET s == date_of(handed.start_date)
           e == date_of(handed.end_date)
           date_range == [sd |-> s.day, sm |-> s.month, sy |-> s.year,
                          ed |-> e.day, em |-> e.month, ey |-> e.year]
       IN formatted' = [short |-> format_date_range(date_range, FALSE),
                        full |-> format_date_range(date_range, TRUE)]
    /\ calpc' = "formatted"
    /\ UNCHANGED <<today, calmode, has_ok_button, start_date_picker, end_date_picker,
                   ok_enabled, tab_result, handed, prev_auto>>
    /\ UNCHANGED calRest

\* the program is started again on the next day
NextDay ==
    /\ calpc \in {"norun", "formatted", "failed"}
    /\ today < MaxDay
    /\ today' = today + 1
    /\ calmode' \in BOOLEAN
    /\ calpc' = "start"
    /\ prev_auto' = IF calpc = "norun" THEN prev_auto
                    ELSE IF handed.kind = "auto" THEN handed ELSE NoRange
    /\ start_date_picker' = 0
    /\ end_date_picker' = 0
    /\ ok_enabled' = FALSE
    /\ tab_result' = NoRange
    /\ handed' = NoRange
    /\ formatted' = [short |-> "", full |-> ""]
    /\ UNCHANGED has_ok_button
    /\ UNCHANGED calRest

InitDates ==
    /\ CoreIdle
    /\ ResIdle
    /\ CmpIdle
    /\ DlgIdle
    /\ DataIdle
    /\ ReadIdle
    /\ today = 1
    /\ calmode \in BOOLEAN
    /\ calpc = "start"
    /\ has_ok_button \in BOOLEAN
    /\ start_date_picker = 0
    /\ end_date_picker = 0
    /\ ok_enabled = FALSE
    /\ tab_result = NoRange
    /\ handed = NoRange
    /\ prev_auto = NoRange
    /\ formatted = [short |-> "", full |-> ""]

NextDates ==
    \/ DateChecks
    \/ OpenDateTab
    \/ PickDate
    \/ AcceptDates
    \/ UseAutoDate
    \/ FormatDateRange
    \/ NextDay

SpecDates == InitDates /\ [][NextDates]_vars

-----------------------------------------------------------------------------
(* Properties of the write path and of the pipeline                        *)

IsComparisonSheet(n) == Len(n) >= 10 /\ SubSeq(n, 1, 10) = "GSN VS ER "

\* the environment faults of the write path proper: open, create, write, save
WriteFaults ==
    { "open", "add_gsner", "add_nologon", "add_gsnad",
      "write_gsner", "write_nologon", "write_gsnad", "save" }

WriteReturned == wpc \in {"analyzed", "returned"}

\* C1: the write path never clears or overwrites a comparison worksheet
\* persisted by an earlier run: every saved "GSN VS ER ..." sheet stays in the
\* file with the rows it had.
C1_EarlierSheetKept ==
    [][\A n \in DOMAIN disk :
          IsComparisonSheet(n) => (n \in DOMAIN disk' /\ disk'[n] = disk[n])]_vars

\* C2: once terminate is requested at any point of a run before the write
\* step, the run returns False and update_excel_file is never called.
C2_TerminateSkipsWrite ==
    (raisedAt \cap BeforeWrite # {}) =>
        (~writeTried /\ rpc # "write" /\ (rpc = "done" => rret = "False"))

\* C2 witness: a finished run in which terminate arrived during data
\* processing, after three checkpoints had been passed
C2_Witness ==
    /\ rpc = "done"
    /\ raisedAt = {"data"}
    /\ ~writeTried
    /\ rret = "False"

\* C3: after any failure of the write path (open, create, write, save) the
\* Excel application has been quit and the handles are null when the write
\* step returns.
C3_QuitOnFailure ==
    (WriteReturned /\ run.failed \cap WriteFaults # {}) =>
        (app = NoApp /\ excelProc = "quit")

\* C4: when the comparison worksheet cannot be created, analyze_excel_file
\* reports failure.
C4_CreateFailureReported ==
    (WriteReturned /\ stepRet.gsner = "False" /\ "write_gsner" \notin run.failed) =>
        wresult = "False"

\* C5: when saving the workbook fails, the write step does not report
\* success to the pipeline.
C5_SaveFailureReported ==
    (wpc = "returned" /\ stepRet.save = "False") => pipeResult # "True"

-----------------------------------------------------------------------------
(* Properties of block extraction                                          *)

Done == xpc = "done"

SearchRange == format_date_for_search(DateRangeStr)

\* a row one of whose first three columns has the sentinel fill #AEAAAA
SentinelRow(row) == \E k \in 1..3 : get_cell_formatting(row.f[k]) = "#AEAAAA"

\* an ordinary data row: no sentinel fill, some text, no date range
OrdinaryRow(row) ==
    /\ ~SentinelRow(row)
    /\ row.c[1] # ""
    /\ \A k \in 1..Len(row.c) : ~date_pattern_search(row.c[k])

\* C6: the start row is always the first emitted record, whatever its own
\* fill colour.
C6_StartRowFirst ==
    (Done /\ variantX = "ER" /\ startRow > 0) =>
        (Len(xres.data) >= 1 /\ xres.data[1] = startRow)

\* C7: a block whose coloured sentinel row is at start+5, with ordinary rows
\* in between, yields exactly the five rows start..start+4.
C7_FiveRowBlock ==
    (/\ Done
     /\ variantX = "ER"
     /\ startRow > 0
     /\ Len(sheet) >= startRow + 5
     /\ SentinelRow(sheet[startRow + 5])
     /\ \A r \in (startRow + 1)..(startRow + 4) : OrdinaryRow(sheet[r]))
    => xres.data = [i \in 1..5 |-> startRow + i - 1]

\* a date-range-shaped string in column 1 that differs from the requested one
DateInColumnOne(row, requested) ==
    date_pattern_search(row.c[1]) /\ Strip(row.c[1]) # requested

\* a date-range-shaped string in any column that differs from the requested one
DateInAnyColumn(row, requested) ==
    \E k \in 1..Len(row.c) : date_pattern_search(row.c[k]) /\ Strip(row.c[k]) # requested

\* the rows after the start row whose column 1 holds a date-range-shaped string
WeeklyStops(start) ==
    { i \in (start + 1)..Len(sheet) : date_pattern_search(Strip(sheet[i].c[1])) }

\* C8 as stated: the date-range stop fires exactly when a row strictly after
\* the start row carries in column 1 a date-range-shaped string that differs
\* from the requested range; the row and all later rows are then excluded.
C8_ColumnOneStop ==
    [][/\ (variantX = "ER" /\ xpc = "loop" /\ cur <= Len(sheet)) =>
            /\ (stopWhy' = "date") <=>
                   (cur > startRow /\ DateInColumnOne(sheet[cur], SearchRange))
            /\ (stopWhy' = "date") => \A i \in 1..Len(xres'.data) : xres'.data[i] < cur
       /\ (variantX = "WEEKLY" /\ xpc = "start" /\ startRow' > 0) =>
            LET stops == { i \in (startRow' + 1)..Len(sheet) :
                             DateInColumnOne(sheet[i], DateRangeStr) }
            IN /\ (stopWhy' = "date") <=> (stops # {})
               /\ \A i \in 1..Len(xres'.data) : \A j \in stops : xres'.data[i] < j
               /\ \A j \in (startRow' + 1)..Len(sheet) :
                     (\A q \in stops : j < q) /\ (\E k \in 1..6 : sheet[j].c[k] # "")
                         => \E i \in 1..Len(xres'.data) : xres'.data[i] = j]_vars

\* C8: in the ER extractor the date-range stop fires exactly when a row
\* strictly after the start row carries, in any column, a date-range-shaped
\* string that differs from the requested range; in the weekly extractor it
\* fires at the first row after the start row whose column 1 carries a
\* date-range-shaped string, the requested one included.  The row and all
\* later rows are then excluded.
C8_DateStop ==
    [][/\ (variantX = "ER" /\ xpc = "loop" /\ cur <= Len(sheet)) =>
            /\ (stopWhy' = "date") <=>
                   (cur > startRow /\ DateInAnyColumn(sheet[cur], SearchRange))
            /\ (stopWhy' = "date") =>
                   /\ xres'.ok = "True"
                   /\ \A i \in 1..Len(xres'.data) : xres'.data[i] < cur
       /\ (variantX = "WEEKLY" /\ xpc = "start" /\ startRow' > 0) =>
            /\ (stopWhy' = "date") <=> (WeeklyStops(startRow') # {})
            /\ \A i \in 1..Len(xres'.data) :
                  \A j \in WeeklyStops(startRow') : xres'.data[i] < j
            /\ \A j \in (startRow' + 1)..Len(sheet) :
                  (\A q \in WeeklyStops(startRow') : j < q)
                  /\ (\E k \in 1..6 : sheet[j].c[k] # "")
                      => \E i \in 1..Len(xres'.data) : xres'.data[i] = j]_vars

\* C8 witness: the ER extraction was stopped, after emitting rows, by a date
\* range that is not in column 1
C8_Witness ==
    /\ Done
    /\ variantX = "ER"
    /\ stopWhy = "date"
    /\ ~date_pattern_search(sheet[cur].c[1])
    /\ Len(xres.data) >= 1

\* no row of the worksheet matches the start marker of the extractor
NoStartMarker ==
    CASE variantX = "ER" ->
            \A i \in 1..Len(sheet) : \A k \in 1..6 : ~Contains(sheet[i].c[k], SearchRange)
      [] variantX = "GSNER" ->
            \A i \in 1..Len(sheet) : ~Contains(sheet[i].c[4], "In GSN but not in ER")
      [] variantX = "GSNAD" ->
            \A i \in 1..Len(sheet) : \A k \in 1..6 :
                ~has_target(sheet[i].c[k], determine_target_row_text(DateRangeStr))
      [] OTHER -> FALSE

\* C9 as stated: without a start marker every extractor variant returns
\* failure and no rows.
C9_FailureEverywhere ==
    (Done /\ NoStartMarker) => (xres.ok = "False" /\ xres.data = << >>)

\* C9: without a start marker the ER and GSN VS AD extractors return failure
\* and no rows; the GSN VS ER extractor falls back to row 1 and returns
\* success with the rows from row 1 on.
C9_NoMarker ==
    (Done /\ NoStartMarker) =>
        IF variantX = "GSNER"
        THEN xres.ok = "True" /\ startRow = 1 /\ Len(xres.data) >= 1 /\ xres.data[1] = 1
        ELSE xres.ok = "False" /\ xres.data = << >>

\* C9 witness: a GSN VS ER extraction without the header that returned rows
C9_Witness ==
    /\ Done
    /\ variantX = "GSNER"
    /\ NoStartMarker
    /\ xres.ok = "True"
    /\ Len(xres.data) >= 2

\* C10: every block extraction terminates: each pass of the loop returns or
\* moves on to the next row, never beyond the row after the last one; and it
\* never emits more than 200 (ER), 100 (GSN VS ER) or 50 (GSN VS AD) rows.
C10_TerminatesWithinCap ==
    [][/\ xpc = "start" => (Done' \/ (xpc' = "loop" /\ cur' \in 1..Len(sheet)))
       /\ xpc = "loop" =>
            (Done' \/ (xpc' = "loop" /\ cur' = cur + 1 /\ cur' <= Len(sheet) + 1))
       /\ variantX = "ER" => Len(body') <= 200 /\ Len(xres'.data) <= 200
       /\ variantX = "GSNER" => Len(body') <= 100 /\ Len(xres'.data) <= 100
       /\ variantX = "GSNAD" => Len(body') <= 50 /\ Len(xres'.data) <= 50]_vars

\* C10 witness: an ER extraction cut at 200 rows on a longer sheet
C10_Witness ==
    /\ Done
    /\ variantX = "ER"
    /\ stopWhy = "cap"
    /\ Len(sheet) > startRow + 199
    /\ Len(xres.data) = 200

-----------------------------------------------------------------------------
(* Properties of the worksheet name resolver                               *)

Named == respc = "named"

\* C11: whenever a worksheet with the requested name already exists, the
\* name the resolver returns is not the name of any existing worksheet, the
\* timestamp fallback included.
C11_ResolvedNameUnique ==
    (Named /\ worksheet_exists(rwb, desired)) => ~worksheet_exists(rwb, resolved)

\* the copy names of the requested name that are free, by their position in
\* the resolver's order
FreeCopies == {n \in 1..100 : copy_name(desired, n) \notin DOMAIN rwb}

\* C12: the resolver returns the desired name unchanged when no worksheet has
\* it, and otherwise the first free name in the order "(copy)", "(copy 2)",
\* ..., "(copy 100)".
C12_FirstFreeName ==
    Named =>
        /\ desired \notin DOMAIN rwb => resolved = desired
        /\ (desired \in DOMAIN rwb /\ FreeCopies # {}) =>
              \E n \in FreeCopies :
                  /\ resolved = copy_name(desired, n)
                  /\ \A m \in FreeCopies : n <= m

\* C12 witness: "ER 2025" and "ER 2025 (copy)" are present and the resolver
\* answered "ER 2025 (copy 2)"
C12_Witness ==
    /\ Named
    /\ desired = "ER 2025"
    /\ {"ER 2025", "ER 2025 (copy)"} \subseteq DOMAIN rwb
    /\ "ER 2025 (copy 2)" \notin DOMAIN rwb
    /\ resolved = "ER 2025 (copy 2)"

-----------------------------------------------------------------------------
(* Properties of the set comparison                                        *)

Elements(l) == {l[i] : i \in 1..Len(l)}

\* in lexicographic order without a repeated entry
StrictlySorted(l) == \A i \in 1..(Len(l) - 1) : str_lt(l[i], l[i + 1])

Compared == cmppc = "compared"

\* C13: compare_data_sets returns the entries of the first list missing from
\* the second, and the reverse, each in lexicographic order and without a
\* duplicate entry.
C13_SortedUniqueDifference ==
    Compared =>
        /\ Elements(comparison_results.MissingInER) = Elements(gsn_in) \ Elements(other_in)
        /\ Elements(comparison_results.MissingInGSN) = Elements(other_in) \ Elements(gsn_in)
        /\ StrictlySorted(comparison_results.MissingInER)
        /\ StrictlySorted(comparison_results.MissingInGSN)

\* the two difference lists of either comparison
FirstOut ==
    IF Compared THEN comparison_results.MissingInER ELSE comparison_results.missing_in_ad

SecondOut ==
    IF Compared THEN comparison_results.MissingInGSN ELSE comparison_results.missing_in_gsn

SameIdentifier(x, y) == Strip(x) = Strip(y)

\* C14: the comparison trims blanks and drops empty entries first: an entry
\* is not reported missing when the other list holds the same identifier
\* with other surrounding blanks, and no empty entry is in either output.
C14_Normalized ==
    cmppc \in {"compared", "compared_ad"} =>
        /\ \A x \in Elements(FirstOut) :
              x # "" /\ ~\E i \in 1..Len(other_in) : SameIdentifier(x, other_in[i])
        /\ \A x \in Elements(SecondOut) :
              x # "" /\ ~\E i \in 1..Len(gsn_in) : SameIdentifier(x, gsn_in[i])

\* C15: no entry is in both outputs of compare_data_sets.
C15_OutputsDisjoint ==
    Compared =>
        Elements(comparison_results.MissingInER)
            \cap Elements(comparison_results.MissingInGSN) = {}

\* C15 witness: the lists share an entry and each holds one the other lacks
C15_Witness ==
    /\ Compared
    /\ Elements(gsn_in) \cap Elements(other_in) # {}
    /\ comparison_results.MissingInER # << >>
    /\ comparison_results.MissingInGSN # << >>

\* C16: compare(A, B).missing_in_second = compare(B, A).missing_in_first and
\* compare(A, B).missing_in_first = compare(B, A).missing_in_second.
C16_SwapSymmetric ==
    Compared =>
        LET swapped == compare_data_sets(other_in, gsn_in) IN
        /\ comparison_results.MissingInER = swapped.MissingInGSN
        /\ comparison_results.MissingInGSN = swapped.MissingInER

\* C16 witness: two different lists, the second holding two entries out of
\* order that the first lacks
C16_Witness ==
    /\ Compared
    /\ gsn_in = << "SGPC001 " >>
    /\ comparison_results.MissingInGSN = << "SGPC002", "SGPC001" >>
    /\ comparison_results.MissingInER = << "SGPC001 " >>

-----------------------------------------------------------------------------
(* Properties of the date selection step                                   *)

\* the dialog is still open although more than the timeout has passed
\* without any action of the user
OpenPastTimeout == DialogOpen /\ ~userActed /\ elapsed > TimeoutSeconds

\* without any action of the user, get_date_range returned the automatic
\* date range
AutoAfterSilence == (dpc = "returned" /\ ~userActed) => dret.date = "auto"

\* C17: the date selection step has a timeout: when the user takes no
\* action the dialog does not stay open beyond the timeout, and the pipeline
\* goes on with the automatically calculated date range.
C17_TimeoutAlways == ~OpenPastTimeout /\ AutoAfterSilence

\* C17 as the code has it: the timeout exists in automatic mode; in manual
\* mode no timer is started.
C17_TimeoutInAutoMode ==
    /\ ~dmode => ~OpenPastTimeout
    /\ AutoAfterSilence
    /\ (dmode /\ dpc = "dialog") => ~timeout_timer

\* C17 witness: automatic mode, nothing done by the user, the timeout has
\* passed, the dialog was rejected by the timer and the automatic date range
\* was returned
C17_Witness ==
    /\ ~dmode
    /\ ~userActed
    /\ elapsed = TimeoutSeconds
    /\ remaining_seconds = 0
    /\ dialog = "rejected"
    /\ dpc = "returned"
    /\ dret.date = "auto"

-----------------------------------------------------------------------------
(* Properties of data gathering                                            *)

AllJobs(st) == \A j \in {"gsn", "er", "ad"} : jobs[j] \in st

\* C18: the three lookups are launched together and joined: all three are
\* submitted before process_data waits for the first result, and all three
\* have ended with a result before the comparison is computed and before the
\* write step begins.
C18_JoinedBeforeCompare ==
    /\ ppc = "result" => AllJobs({"running", "done", "raised"})
    /\ ppc \in {"compare", "write"} => AllJobs({"done"})
    /\ data_results = "dict" => AllJobs({"done"})

\* C18 witness: the write step begins after the jobs ended in the reverse of
\* the order they were submitted in
C18_Witness ==
    /\ ppc = "write"
    /\ doneOrder = << "ad", "er", "gsn" >>
    /\ data_results = "dict"

-----------------------------------------------------------------------------
(* Properties of the weekly report read path                               *)

GuiReturned == gpc = "returned"

\* no sheet name of the workbook passes any of the three tests
NoTierMatches ==
    \A i \in 1..Len(all_sheets), tier \in 1..3 :
        ~sheet_matches(all_sheets[i], "June", "2025", tier)

\* C19: when no worksheet matches under any of the three tiers, the read
\* path reports failure with no rows; it never answers as if a sheet had
\* been found.
C19_NoSheetIsFailure ==
    (GuiReturned /\ infile = "ok" /\ NoTierMatches) =>
        /\ gui_result.success = "False"
        /\ gui_result.data.rows = << >>
        /\ gui_result.error_message # ""
        /\ target_sheet = ""

\* C19 witness: a readable workbook whose sheets match no tier although one
\* of them holds the date range, answered with failure
C19_Witness ==
    /\ GuiReturned
    /\ infile = "ok"
    /\ NoTierMatches
    /\ \E i \in 1..Len(all_sheets) :
          weekly_find_start(sheet_rows[all_sheets[i]], DateRangeStr) # 0
    /\ gui_result.success = "False"

\* C20: when the input workbook file is absent or cannot be copied or
\* opened, the read path reports the failure with a message: it never
\* reports success and never returns rows not read from the workbook.
C20_MissingFileIsFailure ==
    (GuiReturned /\ infile # "ok") =>
        /\ gui_result.success = "False"
        /\ gui_result.error_message # ""
        /\ gui_result.data.from # "hardcoded"

\* the difference list a section of the GSN VS ER sheet was written from
SectionData(header_text) ==
    IF header_text = "In GSN but not in ER" THEN comparison_results.MissingInER
    ELSE comparison_results.MissingInGSN

\* the section headed header_text consists of its header row and one row
\* holding "NIL", centered and merged over the two columns of the section
NilSection(header_text) ==
    \E p \in DOMAIN gsner_ws.Value :
        /\ p[2] = 4
        /\ gsner_ws.Value[p] = header_text
        /\ <<p[1] + 1, 4>> \in DOMAIN gsner_ws.Value
        /\ gsner_ws.Value[<<p[1] + 1, 4>>] = "NIL"
        /\ <<p[1] + 1, 4>> \in gsner_ws.Center
        /\ <<p[1] + 1, 4, 5>> \in gsner_ws.Merged
        /\ <<p[1] + 1, 5>> \notin DOMAIN gsner_ws.Value
        /\ <<p[1] + 2, 4>> \notin DOMAIN gsner_ws.Value
        /\ <<p[1] + 2, 5>> \notin DOMAIN gsner_ws.Value

\* C21: a comparison section written from an empty list has exactly one row
\* under its header, and that row holds "NIL", centered and merged across the
\* two columns of the section
C21_EmptyListGivesNil ==
    (cmppc = "written" /\ gsner_call.ret = "True") =>
        \A header_text \in {"In GSN but not in ER", "In ER but not in GSN"} :
            SectionData(header_text) = << >> => NilSection(header_text)

\* a GSN VS ER sheet was written whose GSN list is not empty and has no
\* entry missing from the ER list
C21_Witness ==
    /\ cmppc = "written"
    /\ gsner_call.ret = "True"
    /\ gsn_in # << >>
    /\ comparison_results.MissingInER = << >>
    /\ NilSection("In GSN but not in ER")

\* the highlighting, both difference sections and the count summary are on
\* the sheet
GsnerSheetComplete ==
    /\ \A p \in DOMAIN gsner_ws.Value : p[2] \in {1, 2} /\ p[1] > 1 => p \in DOMAIN gsner_ws.Color
    /\ \A text \in {"In GSN but not in ER", "In ER but not in GSN", "ER", "GSN"} :
        \E p \in DOMAIN gsner_ws.Value : p[2] = 4 /\ gsner_ws.Value[p] = text

\* C22: when setting a table or tab property fails, the write goes on: the
\* highlighting, both difference sections and the count summary are written
\* and the worksheet update reports success
C22_PropertyFailureCaught ==
    (cmppc = "written" /\ gsner_call.fault # "none") =>
        gsner_call.ret = "True" /\ GsnerSheetComplete

\* the current version after a failed table creation or tab coloring
C22_CurrentCatches ==
    (cmppc = "written" /\ gsner_call.fault # "none" /\ gsner_call.variant = "current") =>
        gsner_call.ret = "True" /\ GsnerSheetComplete

\* a Friday or the last day of a month
RangeEndDay(n) == is_friday(n) \/ is_last_day_of_month(n)

\* a date range was calculated by the fallback in this run
AutoHanded == calpc = "handed" /\ handed.kind = "auto"

C24_EndNotBeforeStart ==
    /\ calpc = "handed" => handed.kind # "none" /\ handed.end_date >= handed.start_date
    /\ tab_result.kind # "none" => tab_result.end_date >= tab_result.start_date
    /\ (calpc = "dialog" /\ has_ok_button /\ end_date_picker < start_date_picker) => ~ok_enabled

\* OK was pressed while the pickers showed an end date before the start date
C24_Witness ==
    /\ calpc = "handed"
    /\ handed.kind = "selected"
    /\ end_date_picker < start_date_picker

\* C30: the calculated ranges of two consecutive run days do not overlap, and
\* every weekday from the start of the earlier to the end of the later lies
\* in exactly one of them
C30_ConsecutiveRangesPartition ==
    (AutoHanded /\ prev_auto.kind = "auto") =>
        LET in_prev(n) == prev_auto.start_date <= n /\ n <= prev_auto.end_date
            in_this(n) == handed.start_date <= n /\ n <= handed.end_date
        IN /\ prev_auto.end_date < handed.start_date
           /\ \A n \in prev_auto.start_date..handed.end_date :
                /\ ~(in_prev(n) /\ in_this(n))
                /\ weekday(n) < 5 => (in_prev(n) \/ in_this(n))

\* a Friday's range following the range of a month end in the same week
C30_Witness ==
    /\ AutoHanded
    /\ prev_auto.kind = "auto"
    /\ is_friday(today)
    /\ today - prev_auto.end_date < 5
    /\ date_of(handed.start_date).day = 1

\* C25: format_date_range gives "{start.day}-{end.day} {Month} {year}" for
\* a range inside one month of one year, a range of a single day included
\* ("2-2 Jun 2025"), and "{start.day} {StartMonth} - {end.day} {EndMonth}
\* {year}" otherwise ("31 May - 1 Jun 2025")
C25_FormatShape ==
    calpc = "formatted" =>
        LET s == date_of(handed.start_date)
            e == date_of(handed.end_date)
            expected(months) ==
                IF s.month = e.month /\ s.year = e.year
                THEN NumStr(s.day) \o "-" \o NumStr(e.day) \o " " \o months[s.month]
                     \o " " \o NumStr(s.year)
                ELSE NumStr(s.day) \o " " \o months[s.month] \o " - " \o NumStr(e.day)
                     \o " " \o months[e.month] \o " " \o NumStr(e.year)
        IN /\ formatted.short = expected(MonthAbbr)
           /\ formatted.full = expected(MonthFull)
           /\ (handed.start_date = 153 /\ handed.end_date = 153) =>
                formatted.short = "2-2 Jun 2025" /\ formatted.full = "2-2 June 2025"
           /\ (handed.start_date = 151 /\ handed.end_date = 152) =>
                formatted.short = "31 May - 1 Jun 2025"
           /\ (handed.start_date = 365 /\ handed.end_date = 366) =>
                formatted.short = "31 Dec - 1 Jan 2026"

\* a single-day range and a range across a month end have been formatted
C25_Witness ==
    /\ calpc = "formatted"
    /\ formatted.short \in {"2-2 Jun 2025", "31 May - 1 Jun 2025"}

\* C26: the worksheet the write path creates carries exactly the name the
\* resolver returned for that write: the create step adds one sheet, and its
\* name is the resolved name
C26_CreatedNameIsResolved ==
    [][CreateResolved => (DOMAIN rwb') \ (DOMAIN rwb) = {resolved}]_vars

\* the same for resolved names of at most 31 characters while a copy name
\* is free
C26_ShortNameIsKept ==
    [][(CreateResolved /\ Len(resolved) <= 31 /\ (desired \notin DOMAIN rwb \/ FreeCopies # {}))
         => (DOMAIN rwb') \ (DOMAIN rwb) = {resolved}]_vars

\* the worksheet extract_gsn_vs_er_data reads for the date range of the run
ReadBackSheet == determine_worksheet_name(format_date_range(run.date, TRUE))

\* a run without faults has returned success
CleanRunReturned == wpc = "returned" /\ pipeResult = "True" /\ run.failed = {}

\* C27: after a write run, the GSN VS ER report read back for the date range
\* of the run holds the rows that run wrote, not those of an earlier run
C27_ReadBackLatest ==
    CleanRunReturned =>
        /\ ReadBackSheet \in DOMAIN disk
        /\ \A i \in 1..Len(disk[ReadBackSheet]) : disk[ReadBackSheet][i].r = run.no

\* the same after runs of the legacy write path, which rewrites the sheet
C27_LegacyReadBackLatest ==
    (CleanRunReturned /\ run.variant = "legacy") =>
        /\ ReadBackSheet \in DOMAIN disk
        /\ \A i \in 1..Len(disk[ReadBackSheet]) : disk[ReadBackSheet][i].r = run.no

\* the number of blocks of the saved "ER 2025" sheet headed by date range d
ErBlocks(book, d) ==
    IF "ER 2025" \notin DOMAIN book THEN 0
    ELSE Cardinality({i \in 1..Len(book["ER 2025"]) :
                        book["ER 2025"][i].t = format_date_range(d, FALSE)})

\* C28: after any number of write runs the "ER <year>" worksheet holds at
\* most one block headed by a given date range
C28_OneBlockPerDateRange ==
    \A d \in DateRanges : ErBlocks(disk, d) <= 1

\* a run of the legacy write path never saves a second block for a date range
C28_LegacyAddsNoSecondBlock ==
    [][run.variant = "legacy" =>
         \A d \in DateRanges : ErBlocks(disk, d) <= 1 => ErBlocks(disk', d) <= 1]_vars

\* C29: a terminate request made before run_sharepoint_automation begins is
\* honored by the run that follows: that run does not reach the write step
\* and returns False
C29_EarlyTerminateHonored ==
    ("before" \in raisedAt) =>
        (~writeTried /\ rpc # "write" /\ (rpc = "done" => rret = "False"))

====
